---- MODULE Spec2Model ----
(***************************************************************************)
(* A model of the OpenType shaping orchestrator of hb-ot-shape.cc:          *)
(*   - plan construction (rb_ot_shape_plan_t::init0: the planner, the      *)
(*     feature collector, compile, the shaper's data_create);               *)
(*   - the shaping pipeline (rb_ot_shape_internal) with every call it       *)
(*     makes, in order, recorded in a call log;                             *)
(*   - mask setup on the glyph array (the fraction pass, the shaper hook    *)
(*     and the user-feature ranges).                                        *)
(*   - rb_ot_rotate_chars on the glyph array (mirroring, vertical forms);  *)
(*   - two shape() calls sharing one compiled plan.                         *)
(* The specifications share the variables: SpecPlan (plan construction),   *)
(* Spec (the pipeline, run on every plan compile can produce), SpecMasks   *)
(* (mask setup on concrete glyph arrays), SpecFraction (the fraction pass  *)
(* alone, with fairness), SpecRotate (rb_ot_rotate_chars) and SpecShared    *)
(* (two calls on one plan).                                                 *)
(***************************************************************************)
EXTENDS Integers, Sequences, FiniteSets, TLC

VARIABLES
    pc,               \* position of the running operation
    face,             \* the face's table predicates (read-only)
    props,            \* segment properties of the planner
    planner,          \* rb_ot_shape_planner_t
    cmap,             \* the compiled map (rb_ot_map_t) of the plan
    plan,             \* rb_ot_shape_plan_t
    buffer,           \* rb_buffer_t: direction, length, scratch flags, caps
    target_direction, \* rb_ot_shape_context_t::target_direction
    calls,            \* every call made by the running shape(), in order
    entry_buffer,     \* the buffers two concurrent shape() calls were entered with
    info,             \* the glyph array (rb_glyph_info_t[]) during mask setup
    user_features,    \* the user features handed to shape()
    fi,               \* index of the user feature the loop is at
    unsafe,           \* spans handed to rb_buffer_unsafe_to_break
    nset,             \* number of rb_buffer_set_masks calls made
    scan,             \* the loop over the glyphs: its index, and the fraction masks
    entry_info,       \* the glyph array as the running loop of rb_ot_rotate_chars found it
    builder,          \* the calls the feature collector made on the map builders
    resources         \* how often each resource of a plan was acquired and released

planVars  == <<face, props, planner, builder, cmap, plan, resources>>
shapeVars == <<buffer, target_direction, calls, entry_buffer>>
maskVars  == <<info, user_features, fi, unsafe, nset, scan, entry_info>>
vars      == <<pc, face, props, planner, cmap, plan, buffer, target_direction,
               calls, entry_buffer, info, user_features, fi, unsafe, nset, scan, entry_info, builder,
               resources>>

(***************************************************************************)
(* Directions (rb_direction_t) and the direction predicates.               *)
(***************************************************************************)
Directions == {"LTR", "RTL", "TTB", "BTT", "INVALID"}

IsHorizontal(d) == d \in {"LTR", "RTL"}
IsVertical(d)   == d \in {"TTB", "BTT"}
IsForward(d)    == d \in {"LTR", "TTB"}
IsBackward(d)   == d \in {"RTL", "BTT"}

Reverse(d) ==
    CASE d = "LTR" -> "RTL"
      [] d = "RTL" -> "LTR"
      [] d = "TTB" -> "BTT"
      [] d = "BTT" -> "TTB"
      [] OTHER     -> d

(***************************************************************************)
(* 32-bit mask arithmetic (rb_mask_t is a 32-bit unsigned integer).        *)
(***************************************************************************)
RECURSIVE BitAnd(_, _)
BitAnd(a, b) ==
    IF a = 0 \/ b = 0 THEN 0
    ELSE (a % 2) * (b % 2) + 2 * BitAnd(a \div 2, b \div 2)

RECURSIVE BitOr(_, _)
BitOr(a, b) ==
    IF a = 0 THEN b
    ELSE IF b = 0 THEN a
    ELSE (IF a % 2 = 1 \/ b % 2 = 1 THEN 1 ELSE 0) + 2 * BitOr(a \div 2, b \div 2)

\* x & ~m
BitClear(x, m) == x - BitAnd(x, m)

\* v << s on 32 bits: the bits shifted past bit 31 are dropped.  (Masks are
\* kept below 2^31 here.)
ShiftLeft(v, s) == IF s <= 1 THEN v * (2 ^ s) ELSE (v % (2 ^ (32 - s))) * (2 ^ s)

(***************************************************************************)
(* unsigned int values that may exceed 2^31 (buffer lengths and caps, the  *)
(* span of a feature) are held as two 16-bit limbs.                        *)
(***************************************************************************)
Limb == 2 ^ 16

U32(hi, lo) == [hi |-> hi, lo |-> lo]

ToU32(n) == U32(n \div Limb, n % Limb)

UIntMax == U32(Limb - 1, Limb - 1)

U32Less(a, b) == a.hi < b.hi \/ (a.hi = b.hi /\ a.lo < b.lo)

\* a * f on 32 bits (wrapping), f < 2^15
U32Mul(a, f) ==
    U32((a.hi * f + (a.lo * f) \div Limb) % Limb, (a.lo * f) % Limb)

\* whether a * f does not fit 32 bits
U32MulCarries(a, f) == (a.hi * f + (a.lo * f) \div Limb) >= Limb

(***************************************************************************)
(* The face: the table predicates compile() and rb_apply_morx() ask.       *)
(***************************************************************************)
Faces ==
    [aat_has_substitution   : BOOLEAN,   \* rb_aat_layout_has_substitution
     ot_has_substitution    : BOOLEAN,   \* rb_ot_layout_has_substitution
     aat_has_positioning    : BOOLEAN,   \* rb_aat_layout_has_positioning
     ot_has_positioning     : BOOLEAN,   \* rb_ot_layout_has_positioning
     ot_has_kerning         : BOOLEAN,   \* rb_ot_layout_has_kerning
     ot_has_machine_kerning : BOOLEAN,   \* rb_ot_layout_has_machine_kerning
     ot_has_cross_kerning   : BOOLEAN,   \* rb_ot_layout_has_cross_kerning
     aat_has_tracking       : BOOLEAN,   \* rb_aat_layout_has_tracking
     has_glyph_classes      : BOOLEAN]   \* rb_ot_layout_has_glyph_classes

NoFace == [f \in {} |-> FALSE]

(***************************************************************************)
(* Complex shapers: the capability vector the core reads.  gpos_tag "none" *)
(* is the zero tag.                                                        *)
(***************************************************************************)
ZeroWidthMarksModes == {"NONE", "BY_GDEF_EARLY", "BY_GDEF_LATE"}

MkShaper(n, z, f, g) ==
    [name |-> n, zero_width_marks |-> z, fallback_position |-> f, gpos_tag |-> g]

DefaultShaper == MkShaper("default", "BY_GDEF_LATE", TRUE, "none")

Shapers ==
    { DefaultShaper,
      MkShaper("hebrew",  "BY_GDEF_LATE",  TRUE,  "hebr"),
      MkShaper("indic",   "NONE",          FALSE, "none"),
      MkShaper("use",     "BY_GDEF_EARLY", FALSE, "none"),
      MkShaper("dumber",  "NONE",          TRUE,  "none") }

NullShaper == MkShaper("null", "NONE", FALSE, "none")

\* rb_ot_complex_shaper_reconsider_shaper_if_applying_morx: the constructor
\* takes whatever shaper the call returns (the shaper itself, the default
\* shaper, or another one, with another zero-width-marks mode).
ReconsiderChoices(s) == Shapers

(***************************************************************************)
(* rb_apply_morx                                                           *)
(***************************************************************************)
\* Faulty variant: the direction is not asked
rb_apply_morx_AnyDirection(f, p) == f.aat_has_substitution

rb_apply_morx(f, p) ==
    f.aat_has_substitution /\ (IsHorizontal(p.direction) \/ ~f.ot_has_substitution)

(***************************************************************************)
(* The planner (constructor).  s is the shaper rb_ot_shape_complex_categorize *)
(* returns, r the shaper reconsider returns for it.                         *)
(***************************************************************************)
NullPlanner ==
    [apply_morx |-> FALSE, shaper |-> NullShaper, categorized |-> NullShaper,
     reconsidered |-> NullShaper,
     script_zero_marks |-> FALSE, script_fallback_mark_positioning |-> FALSE]

\* Faulty variant: the script's flags read after the reconsideration
NewPlanner_FlagsAfterReconsider(f, p, s, r) ==
    LET am == rb_apply_morx(f, p)
        sh == IF am THEN r ELSE s
    IN  [apply_morx |-> am,
         categorized |-> s,
         reconsidered |-> IF am THEN r ELSE NullShaper,
         script_zero_marks |-> sh.zero_width_marks # "NONE",
         script_fallback_mark_positioning |-> sh.fallback_position,
         shaper |-> sh]

\* categorized and reconsidered record what the two calls returned
\* (reconsidered is NullShaper when the call was not made).
NewPlanner(f, p, s, r) ==
    LET am == rb_apply_morx(f, p) IN
    [apply_morx |-> am,
     categorized |-> s,
     reconsidered |-> IF am THEN r ELSE NullShaper,
     script_zero_marks |-> s.zero_width_marks # "NONE",
     script_fallback_mark_positioning |-> s.fallback_position,
     shaper |-> IF am THEN r ELSE s]

(***************************************************************************)
(* The compiled map (rb_ot_map_t), as the core reads it: per tag a mask    *)
(* and a shift (mask 0: the tag is not in the map), the global mask, and   *)
(* for GPOS (table index 1) whether the kern tag has a feature index and   *)
(* the script that was chosen.  Bit 0 of a glyph mask is a glyph flag, bit *)
(* 1 the global bit; a feature of its own gets the bits of FeatureSlot.    *)
(***************************************************************************)
Tags == {"frac", "numr", "dnom", "smcp", "rtlm", "vert", "kern", "vkrn", "trak", "mark"}

GlobalSlot == [mask |-> 2, shift |-> 1]

FeatureSlot(t) ==
    CASE t = "frac" -> [mask |-> 4,   shift |-> 2]
      [] t = "numr" -> [mask |-> 8,   shift |-> 3]
      [] t = "dnom" -> [mask |-> 16,  shift |-> 4]
      [] t = "smcp" -> [mask |-> 96,  shift |-> 5]
      [] t = "rtlm" -> [mask |-> 128, shift |-> 7]
      [] OTHER      -> GlobalSlot

MapOf(present, gk, cs) ==
    [mask  |-> [t \in Tags |-> IF t \in present THEN FeatureSlot(t).mask ELSE 0],
     shift |-> [t \in Tags |-> IF t \in present THEN FeatureSlot(t).shift ELSE 0],
     global_mask      |-> GlobalSlot.mask,
     gpos_kern_index  |-> gk,
     gpos_chosen_script |-> cs]

NullMap == MapOf({}, FALSE, "DFLT")

\* rb_ot_map_get_mask: the tag's mask (and, through the pointer, its shift).
rb_ot_map_get_mask(m, t) == m.mask[t]

rb_ot_map_get_shift(m, t) == m.shift[t]

\* rb_ot_map_get_1_mask: the lowest bit of the tag's mask.
rb_ot_map_get_1_mask(m, t) == BitAnd(2 ^ m.shift[t], m.mask[t])

rb_ot_map_get_global_mask(m) == m.global_mask

(***************************************************************************)
(* rb_ot_shape_planner_t::compile, on a zeroed plan.                       *)
(***************************************************************************)
ZeroPlan ==
    [props |-> [direction |-> "INVALID"], shaper |-> NullShaper,
     frac_mask |-> 0, numr_mask |-> 0, dnom_mask |-> 0, has_frac |-> FALSE,
     rtlm_mask |-> 0, has_vert |-> FALSE,
     kern_mask |-> 0, requested_kerning |-> FALSE,
     trak_mask |-> 0, requested_tracking |-> FALSE,
     fallback_glyph_classes |-> FALSE,
     apply_morx |-> FALSE, apply_kerx |-> FALSE, apply_gpos |-> FALSE,
     apply_kern |-> FALSE, apply_trak |-> FALSE,
     zero_marks |-> FALSE, has_gpos_mark |-> FALSE,
     adjust_mark_positioning_when_zeroing |-> FALSE,
     fallback_mark_positioning |-> FALSE]

\* line 123
HasFrac(frac_mask, numr_mask, dnom_mask) ==
    frac_mask # 0 \/ (numr_mask # 0 /\ dnom_mask # 0)

\* line 129
KernTag(p) == IF IsHorizontal(p.direction) THEN "kern" ELSE "vkrn"

\* line 137
DisableGpos(gpos_tag, m) == gpos_tag # "none" /\ gpos_tag # m.gpos_chosen_script

\* lines 143-144
FallbackGlyphClasses(z, f) ==
    IF ~f.has_glyph_classes THEN TRUE ELSE z.fallback_glyph_classes

\* Faulty variant: the two tests of the first election made independent ifs
ElectPositioning_Independent(z, f, apply_morx, disable_gpos) ==
    [apply_kerx |-> IF f.aat_has_positioning THEN TRUE ELSE z.apply_kerx,
     apply_gpos |-> IF ~apply_morx /\ ~disable_gpos /\ f.ot_has_positioning
                       THEN TRUE ELSE z.apply_gpos,
     apply_kern |-> z.apply_kern]

\* Faulty variant: GPOS asked before AAT positioning in the first election
ElectPositioning_GposFirst(z, f, apply_morx, disable_gpos) ==
    IF ~apply_morx /\ ~disable_gpos /\ f.ot_has_positioning
        THEN [apply_kerx |-> z.apply_kerx, apply_gpos |-> TRUE, apply_kern |-> z.apply_kern]
    ELSE IF f.aat_has_positioning
        THEN [apply_kerx |-> TRUE, apply_gpos |-> z.apply_gpos, apply_kern |-> z.apply_kern]
    ELSE [apply_kerx |-> z.apply_kerx, apply_gpos |-> z.apply_gpos, apply_kern |-> z.apply_kern]

\* Faulty variant: GPOS elected without asking whether morx applies
ElectPositioning_MorxIgnored(z, f, apply_morx, disable_gpos) ==
    IF f.aat_has_positioning
        THEN [apply_kerx |-> TRUE, apply_gpos |-> z.apply_gpos, apply_kern |-> z.apply_kern]
    ELSE IF ~disable_gpos /\ f.ot_has_positioning
        THEN [apply_kerx |-> z.apply_kerx, apply_gpos |-> TRUE, apply_kern |-> z.apply_kern]
    ELSE [apply_kerx |-> z.apply_kerx, apply_gpos |-> z.apply_gpos, apply_kern |-> z.apply_kern]

\* lines 156-159: the first election of a positioning backend.
ElectPositioning(z, f, apply_morx, disable_gpos) ==
    IF f.aat_has_positioning
        THEN [apply_kerx |-> TRUE, apply_gpos |-> z.apply_gpos, apply_kern |-> z.apply_kern]
    ELSE IF ~apply_morx /\ ~disable_gpos /\ f.ot_has_positioning
        THEN [apply_kerx |-> z.apply_kerx, apply_gpos |-> TRUE, apply_kern |-> z.apply_kern]
    ELSE [apply_kerx |-> z.apply_kerx, apply_gpos |-> z.apply_gpos, apply_kern |-> z.apply_kern]

\* lines 161-167: the re-election when GPOS kern was not applied.
ReelectPositioning(b, f, has_gpos_kern) ==
    IF ~b.apply_kerx /\ (~has_gpos_kern \/ ~b.apply_gpos)
        THEN IF f.aat_has_positioning
                THEN [b EXCEPT !.apply_kerx = TRUE]
             ELSE IF f.ot_has_kerning
                THEN [b EXCEPT !.apply_kern = TRUE]
             ELSE b
    ELSE b

\* line 169
ZeroMarks(script_zero_marks, b, f) ==
    script_zero_marks /\ ~b.apply_kerx /\ (~b.apply_kern \/ ~f.ot_has_machine_kerning)

\* lines 172-173
AdjustMarkPositioningWhenZeroing(b, f) ==
    ~b.apply_gpos /\ ~b.apply_kerx /\ (~b.apply_kern \/ ~f.ot_has_cross_kerning)

\* Faulty variant: the script's wish alone decides
FallbackMarkPositioning_ScriptOnly(adjust, script_fallback_mark_positioning) ==
    script_fallback_mark_positioning

\* line 175
FallbackMarkPositioning(adjust, script_fallback_mark_positioning) ==
    adjust /\ script_fallback_mark_positioning

\* Faulty variant: the face alone decides
ApplyTrak_FaceOnly(requested_tracking, f) == f.aat_has_tracking

\* line 178
ApplyTrak(requested_tracking, f) == requested_tracking /\ f.aat_has_tracking

CompilePlan(z, pl, p, f, m) ==
    LET frac_mask == rb_ot_map_get_1_mask(m, "frac")
        numr_mask == rb_ot_map_get_1_mask(m, "numr")
        dnom_mask == rb_ot_map_get_1_mask(m, "dnom")
        kern_mask == rb_ot_map_get_mask(m, KernTag(p))
        trak_mask == rb_ot_map_get_mask(m, "trak")
        has_gpos_kern == m.gpos_kern_index
        disable_gpos  == DisableGpos(pl.shaper.gpos_tag, m)
        b == ReelectPositioning(ElectPositioning(z, f, pl.apply_morx, disable_gpos),
                                f, has_gpos_kern)
        adjust == AdjustMarkPositioningWhenZeroing(b, f)
    IN  [props     |-> p,
         shaper    |-> pl.shaper,
         frac_mask |-> frac_mask,
         numr_mask |-> numr_mask,
         dnom_mask |-> dnom_mask,
         has_frac  |-> HasFrac(frac_mask, numr_mask, dnom_mask),
         rtlm_mask |-> rb_ot_map_get_1_mask(m, "rtlm"),
         has_vert  |-> rb_ot_map_get_1_mask(m, "vert") # 0,
         kern_mask |-> kern_mask,
         requested_kerning  |-> kern_mask # 0,
         trak_mask |-> trak_mask,
         requested_tracking |-> trak_mask # 0,
         fallback_glyph_classes |-> FallbackGlyphClasses(z, f),
         apply_morx |-> pl.apply_morx,
         apply_kerx |-> b.apply_kerx,
         apply_gpos |-> b.apply_gpos,
         apply_kern |-> b.apply_kern,
         zero_marks |-> ZeroMarks(pl.script_zero_marks, b, f),
         has_gpos_mark |-> rb_ot_map_get_1_mask(m, "mark") # 0,
         adjust_mark_positioning_when_zeroing |-> adjust,
         fallback_mark_positioning |->
             FallbackMarkPositioning(adjust, pl.script_fallback_mark_positioning),
         apply_trak |-> ApplyTrak(trak_mask # 0, f)]

(***************************************************************************)
(* User features (rb_feature_t) and the feature collector.                 *)
(***************************************************************************)
GlobalStart == ToU32(0)
GlobalEnd   == UIntMax

IsGlobalSpan(ft) == ft.start = GlobalStart /\ ft.end = GlobalEnd

Call(op, tag, flags, value) == [op |-> op, tag |-> tag, flags |-> flags, value |-> value]

common_features ==
    << <<"abvm", "F_GLOBAL">>, <<"blwm", "F_GLOBAL">>, <<"ccmp", "F_GLOBAL">>,
       <<"locl", "F_GLOBAL">>, <<"mark", "F_GLOBAL_MANUAL_JOINERS">>,
       <<"mkmk", "F_GLOBAL_MANUAL_JOINERS">>, <<"rlig", "F_GLOBAL">> >>

horizontal_features ==
    << <<"calt", "F_GLOBAL">>, <<"clig", "F_GLOBAL">>, <<"curs", "F_GLOBAL">>,
       <<"dist", "F_GLOBAL">>, <<"kern", "F_GLOBAL_HAS_FALLBACK">>,
       <<"liga", "F_GLOBAL">>, <<"rclt", "F_GLOBAL">> >>

AddAll(table) == [i \in 1..Len(table) |-> Call("add", table[i][1], table[i][2], 1)]

DirectionFeatures(d) ==
    CASE d = "LTR" -> << Call("enable", "ltra", "F_NONE", 1), Call("enable", "ltrm", "F_NONE", 1) >>
      [] d = "RTL" -> << Call("enable", "rtla", "F_NONE", 1), Call("add", "rtlm", "F_NONE", 1) >>
      [] OTHER     -> << >>

\* Faulty variant: every user feature registered as global
UserFeatureCalls_AllGlobal(uf) ==
    [i \in 1..Len(uf) |-> Call("add", uf[i].tag, "F_GLOBAL", uf[i].value)]

UserFeatureCalls(uf) ==
    [i \in 1..Len(uf) |->
        Call("add", uf[i].tag, IF IsGlobalSpan(uf[i]) THEN "F_GLOBAL" ELSE "F_NONE", uf[i].value)]

AatFeatureCalls(uf) ==
    [i \in 1..Len(uf) |-> Call("aat_add", uf[i].tag, "", uf[i].value)]

\* rb_ot_shape_collect_features: the calls made, in order.
rb_ot_shape_collect_features(pl, p, uf) ==
       << Call("enable", "rvrn", "F_NONE", 1), Call("gsub_pause", "", "", 0) >>
    \o DirectionFeatures(p.direction)
    \o << Call("add", "frac", "F_NONE", 1),
          Call("add", "numr", "F_NONE", 1),
          Call("add", "dnom", "F_NONE", 1),
          Call("enable", "rand", "F_RANDOM", "RB_OT_MAP_MAX_VALUE"),
          Call("enable", "trak", "F_HAS_FALLBACK", 1),
          Call("enable", "HARF", "F_NONE", 1),
          Call("shaper_collect_features", pl.shaper.name, "", 0),
          Call("enable", "BUZZ", "F_NONE", 1) >>
    \o AddAll(common_features)
    \o (IF IsHorizontal(p.direction)
            THEN AddAll(horizontal_features)
            ELSE << Call("enable", "vert", "F_GLOBAL_SEARCH", 1) >>)
    \o UserFeatureCalls(uf)
    \o (IF pl.apply_morx THEN AatFeatureCalls(uf) ELSE << >>)
    \o << Call("shaper_override_features", pl.shaper.name, "", 0) >>

(***************************************************************************)
(* Plan construction: rb_ot_shape_plan_t::init0, one action per call.      *)
(***************************************************************************)
\* The maps rb_ot_map_builder_compile may hand to compile().
PlanTagSets == { Tags \ {"trak"}, Tags }

PlanMaps ==
    { MapOf(ts, gk, cs) : ts \in PlanTagSets, gk \in BOOLEAN, cs \in {"DFLT", "hebr"} }

\* The resources of a plan under construction: the compiled map (plan.map),
\* the compiled AAT map (plan.aat_map), the planner's map builder and the
\* shaper's data.
Resources == {"map", "aat_map", "builder", "data"}

NoResources == [acquired |-> [r \in Resources |-> 0], released |-> [r \in Resources |-> 0]]

Acquire(rs, r) == [rs EXCEPT !.acquired[r] = @ + 1]

Release(rs, r) == [rs EXCEPT !.released[r] = @ + 1]

\* lines 187-188
CreateMaps ==
    /\ pc = "init0"
    /\ resources' = Acquire(Acquire(resources, "map"), "aat_map")
    /\ pc' = "maps_created"
    /\ UNCHANGED <<face, props, planner, builder, cmap, plan, shapeVars, maskVars>>

\* line 190: the planner's constructor.
PlannerNew ==
    /\ pc = "maps_created"
    /\ \E s \in Shapers :
         \E r \in (IF rb_apply_morx(face, props) THEN ReconsiderChoices(s) ELSE {s}) :
            planner' = NewPlanner(face, props, s, r)
    /\ resources' = Acquire(resources, "builder")
    /\ pc' = "planner"
    /\ UNCHANGED <<face, props, builder, cmap, plan, shapeVars, maskVars>>

\* line 192
CollectFeatures ==
    /\ pc = "planner"
    /\ builder' = rb_ot_shape_collect_features(planner, props, user_features)
    /\ pc' = "collected"
    /\ UNCHANGED <<face, props, planner, cmap, plan, resources, shapeVars, maskVars>>

\* line 194
Compile ==
    /\ pc = "collected"
    /\ \E m \in PlanMaps :
         /\ cmap' = m
         /\ plan' = CompilePlan(plan, planner, props, face, m)
    /\ pc' = "compiled"
    /\ UNCHANGED <<face, props, planner, builder, resources, shapeVars, maskVars>>

\* lines 107-110: the planner's destructor, run when init0 returns
PlannerDestructor(rs) == Release(rs, "builder")

\* Faulty variant: the failure path forgets the compiled map
ReleaseOnFailure_AatMapOnly(rs) == Release(rs, "aat_map")

\* lines 197-198
ReleaseOnFailure(rs) == Release(Release(rs, "map"), "aat_map")

\* lines 196-203: rb_ot_complex_shaper_data_create succeeds (the data is the
\* plan's, init0 returns true: "plan_ready") or fails (init0 releases the
\* maps and returns false: "plan_failed"); the return destroys the planner.
DataCreate ==
    /\ pc = "compiled"
    /\ \E ok \in BOOLEAN :
          IF ok THEN /\ resources' = PlannerDestructor(Acquire(resources, "data"))
                     /\ pc' = "plan_ready"
                ELSE /\ resources' = PlannerDestructor(ReleaseOnFailure(resources))
                     /\ pc' = "plan_failed"
    /\ UNCHANGED <<face, props, planner, builder, cmap, plan, shapeVars, maskVars>>

\* lines 205-211: rb_ot_shape_plan_t::fini, on a plan init0 returned true for
Fini ==
    /\ pc = "plan_ready"
    /\ resources' = Release(Release(Release(resources, "data"), "map"), "aat_map")
    /\ pc' = "plan_finished"
    /\ UNCHANGED <<face, props, planner, builder, cmap, plan, shapeVars, maskVars>>

\* the resources of a plan init0 returned true for
ReadyResources ==
    [acquired |-> [r \in Resources |-> 1],
     released |-> [r \in Resources |-> IF r = "builder" THEN 1 ELSE 0]]

NoScan == [i |-> 0, count |-> 0, pre_mask |-> 0, post_mask |-> 0]

NoBuffer == [direction |-> "INVALID", length |-> ToU32(0), scratch_flags |-> {},
             max_len |-> ToU32(0), max_ops |-> ToU32(0)]

\* The user features init0 is handed: none, or a ranged one followed by a
\* global one.
PlanUserFeatures ==
    { << >>,
      << [tag |-> "smcp", value |-> 1, start |-> ToU32(1), end |-> ToU32(3)],
         [tag |-> "frac", value |-> 0, start |-> GlobalStart, end |-> GlobalEnd] >> }

InitPlan ==
    /\ pc = "init0"
    /\ face \in Faces
    /\ props \in [direction : Directions]
    /\ planner = NullPlanner
    /\ builder = << >>
    /\ resources = NoResources
    /\ cmap = NullMap
    /\ plan = ZeroPlan
    /\ buffer = NoBuffer
    /\ target_direction = "INVALID"
    /\ calls = << >>
    /\ entry_buffer = NoBuffer
    /\ info = << >>
    /\ user_features \in PlanUserFeatures
    /\ fi = 0
    /\ unsafe = << >>
    /\ nset = 0
    /\ scan = NoScan
    /\ entry_info = << >>

NextPlan == CreateMaps \/ PlannerNew \/ CollectFeatures \/ Compile \/ DataCreate \/ Fini

SpecPlan == InitPlan /\ [][NextPlan]_vars

(***************************************************************************)
(* The shaping pipeline: rb_ot_shape and rb_ot_shape_internal.  Each call  *)
(* of rb_ot_shape_internal is one action; it appends its own name and then *)
(* the calls it makes, in order, to the call log.  The glyph array is kept *)
(* only as its length here (SpecMasks works on glyph arrays).              *)
(***************************************************************************)
RB_BUFFER_MAX_LEN_FACTOR  == 32
RB_BUFFER_MAX_LEN_MIN     == 8192
RB_BUFFER_MAX_LEN_DEFAULT == 1073741823
RB_BUFFER_MAX_OPS_FACTOR  == 64
RB_BUFFER_MAX_OPS_MIN     == 1024
RB_BUFFER_MAX_OPS_DEFAULT == 536870911

\* Buffer lengths shape() is entered with: small ones and ones whose product
\* with a factor does not fit 32 bits.
BufferLengths == {ToU32(3), ToU32(2 ^ 26), ToU32(2 ^ 27)}

rb_unsigned_mul_overflows(count, size) == U32MulCarries(count, size)

rb_max(a, b) == IF U32Less(b, a) THEN a ELSE b

Log(step, nested) == calls' = calls \o <<step>> \o nested

\* Faulty variant: the dispatch on apply_morx inverted
PlanSubstitute_Inverted(pl) ==
    IF pl.apply_morx THEN <<"rb_ot_layout_substitute">>
                     ELSE <<"rb_aat_layout_substitute">>

\* lines 213-219
PlanSubstitute(pl) ==
    IF pl.apply_morx THEN <<"rb_aat_layout_substitute">>
                     ELSE <<"rb_ot_layout_substitute">>

\* Faulty variant: OT kern asked before GPOS and kerx
PlanPosition_KernFirst(pl) ==
       (IF pl.apply_kern      THEN <<"rb_ot_layout_kern">>
        ELSE IF pl.apply_gpos THEN <<"rb_ot_layout_position">>
        ELSE IF pl.apply_kerx THEN <<"rb_aat_layout_position">>
        ELSE <<"rb_ot_shape_fallback_kern">>)
    \o (IF pl.apply_trak THEN <<"rb_aat_layout_track">> ELSE << >>)

\* lines 221-234
PlanPosition(pl) ==
       (IF pl.apply_gpos      THEN <<"rb_ot_layout_position">>
        ELSE IF pl.apply_kerx THEN <<"rb_aat_layout_position">>
        ELSE IF pl.apply_kern THEN <<"rb_ot_layout_kern">>
        ELSE <<"rb_ot_shape_fallback_kern">>)
    \o (IF pl.apply_trak THEN <<"rb_aat_layout_track">> ELSE << >>)

\* lines 449-464
rb_ot_substitute_default(pl) ==
       <<"rb_ot_rotate_chars", "rb_ot_shape_normalize", "rb_ot_shape_setup_masks">>
    \o (IF pl.fallback_mark_positioning
            THEN <<"rb_ot_shape_fallback_mark_position_recategorize_marks">>
            ELSE << >>)
    \o <<"rb_ot_map_glyphs_fast">>

\* lines 466-476
rb_ot_substitute_complex(pl) ==
       <<"rb_ot_layout_substitute_start">>
    \o (IF pl.fallback_glyph_classes THEN <<"rb_synthesize_glyph_classes">> ELSE << >>)
    \o PlanSubstitute(pl)

\* lines 478-482
rb_ot_substitute_pre(pl) == rb_ot_substitute_default(pl) \o rb_ot_substitute_complex(pl)

\* lines 484-491
rb_ot_substitute_post(pl) ==
       <<"rb_ot_hide_default_ignorables">>
    \o (IF pl.apply_morx THEN <<"rb_aat_layout_remove_deleted_glyphs">> ELSE << >>)
    \o <<"rb_ot_complex_shaper_postprocess_glyphs">>

\* lines 497-516
rb_ot_position_default(b) ==
       (IF IsHorizontal(b.direction)
            THEN <<"rb_face_get_glyph_h_advances">>
            ELSE <<"rb_face_get_glyph_v_advances", "rb_face_subtract_glyph_v_origin">>)
    \o (IF "HAS_SPACE_FALLBACK" \in b.scratch_flags
            THEN <<"rb_ot_shape_fallback_spaces">> ELSE << >>)

\* Faulty variant: the shaper's mode is not asked
ZeroMarkWidths_AnyMode(pl, when) ==
    IF pl.zero_marks THEN <<"rb_zero_mark_widths_by_gdef">> ELSE << >>

\* lines 536-546 and 550-560: zeroing of mark widths before (when = EARLY) or
\* after (when = LATE) the positioning dispatch.
ZeroMarkWidths(pl, when) ==
    IF pl.zero_marks /\ pl.shaper.zero_width_marks = when
        THEN <<"rb_zero_mark_widths_by_gdef">> ELSE << >>

\* lines 518-571
rb_ot_position_complex(pl) ==
       <<"rb_ot_layout_position_start">>
    \o ZeroMarkWidths(pl, "BY_GDEF_EARLY")
    \o PlanPosition(pl)
    \o ZeroMarkWidths(pl, "BY_GDEF_LATE")
    \o <<"rb_ot_layout_position_finish_advances", "rb_ot_zero_width_default_ignorables">>
    \o (IF pl.apply_morx THEN <<"rb_aat_layout_zero_width_deleted_glyphs">> ELSE << >>)
    \o <<"rb_ot_layout_position_finish_offsets">>
    \o (IF pl.fallback_mark_positioning
            THEN <<"rb_ot_shape_fallback_mark_position">> ELSE << >>)

\* Faulty variant: the target direction decides the reversal
rb_ot_position_ByTarget(pl, b) ==
       <<"rb_buffer_clear_positions">>
    \o rb_ot_position_default(b)
    \o rb_ot_position_complex(pl)
    \o (IF IsBackward(pl.props.direction) THEN <<"rb_buffer_reverse">> ELSE << >>)

\* lines 573-583
rb_ot_position(pl, b) ==
       <<"rb_buffer_clear_positions">>
    \o rb_ot_position_default(b)
    \o rb_ot_position_complex(pl)
    \o (IF IsBackward(b.direction) THEN <<"rb_buffer_reverse">> ELSE << >>)

\* lines 628-636: rb_ot_shape builds the context around the caller's buffer;
\* the buffer's direction is the one the plan was made for, and
\* target_direction is value-initialised.
ShapeCall ==
    /\ pc = "plan_ready"
    /\ \E n \in BufferLengths, sf \in SUBSET {"HAS_SPACE_FALLBACK"} :
          buffer' = [direction |-> plan.props.direction, length |-> n,
                     scratch_flags |-> sf,
                     max_len |-> ToU32(RB_BUFFER_MAX_LEN_DEFAULT),
                     max_ops |-> ToU32(RB_BUFFER_MAX_OPS_DEFAULT)]
    /\ target_direction' = "INVALID"
    /\ calls' = << >>
    /\ pc' = "shape_entry"
    /\ UNCHANGED <<planVars, maskVars, entry_buffer>>

\* line 589
ResetScratchFlags ==
    /\ pc = "shape_entry"
    /\ buffer' = [buffer EXCEPT !.scratch_flags = {}]
    /\ Log("rb_buffer_set_scratch_flags", << >>)
    /\ pc' = "caps"
    /\ UNCHANGED <<planVars, maskVars, entry_buffer, target_direction>>

\* Faulty variant: the products are stored without the overflow tests
SetCaps_Unchecked ==
    /\ pc = "caps"
    /\ buffer' = [buffer EXCEPT
          !.max_len = rb_max(U32Mul(buffer.length, RB_BUFFER_MAX_LEN_FACTOR),
                             ToU32(RB_BUFFER_MAX_LEN_MIN)),
          !.max_ops = rb_max(U32Mul(buffer.length, RB_BUFFER_MAX_OPS_FACTOR),
                             ToU32(RB_BUFFER_MAX_OPS_MIN))]
    /\ Log("set_caps", <<"rb_buffer_set_max_len", "rb_buffer_set_max_ops">>)
    /\ pc' = "target"
    /\ UNCHANGED <<planVars, maskVars, entry_buffer, target_direction>>

\* lines 590-599
SetCaps ==
    /\ pc = "caps"
    /\ LET len_ok == ~rb_unsigned_mul_overflows(buffer.length, RB_BUFFER_MAX_LEN_FACTOR)
           ops_ok == ~rb_unsigned_mul_overflows(buffer.length, RB_BUFFER_MAX_OPS_FACTOR)
       IN  /\ buffer' = [buffer EXCEPT
                 !.max_len = IF len_ok
                     THEN rb_max(U32Mul(buffer.length, RB_BUFFER_MAX_LEN_FACTOR),
                                 ToU32(RB_BUFFER_MAX_LEN_MIN))
                     ELSE @,
                 !.max_ops = IF ops_ok
                     THEN rb_max(U32Mul(buffer.length, RB_BUFFER_MAX_OPS_FACTOR),
                                 ToU32(RB_BUFFER_MAX_OPS_MIN))
                     ELSE @]
           /\ Log("set_caps",
                  (IF len_ok THEN <<"rb_buffer_set_max_len">> ELSE << >>)
                  \o (IF ops_ok THEN <<"rb_buffer_set_max_ops">> ELSE << >>))
    /\ pc' = "target"
    /\ UNCHANGED <<planVars, maskVars, entry_buffer, target_direction>>

\* line 602
RecordTargetDirection ==
    /\ pc = "target"
    /\ target_direction' = buffer.direction
    /\ Log("target_direction", << >>)
    /\ pc' = "clear_output"
    /\ UNCHANGED <<planVars, maskVars, entry_buffer, buffer>>

\* line 604
ClearOutput ==
    /\ pc = "clear_output"
    /\ Log("rb_buffer_clear_output", << >>)
    /\ pc' = "init_masks"
    /\ UNCHANGED <<planVars, maskVars, entry_buffer, buffer, target_direction>>

\* line 606 (rb_ot_shape_initialize_masks, lines 422-428)
InitializeMasks ==
    /\ pc = "init_masks"
    /\ Log("rb_ot_shape_initialize_masks", <<"rb_buffer_reset_masks">>)
    /\ pc' = "unicode_props"
    /\ UNCHANGED <<planVars, maskVars, entry_buffer, buffer, target_direction>>

\* line 607: rb_set_unicode_props derives the scratch flags from the text.
SetUnicodeProps ==
    /\ pc = "unicode_props"
    /\ \E sf \in SUBSET {"HAS_SPACE_FALLBACK"} :
          buffer' = [buffer EXCEPT !.scratch_flags = @ \cup sf]
    /\ Log("rb_set_unicode_props", << >>)
    /\ pc' = "dotted_circle"
    /\ UNCHANGED <<planVars, maskVars, entry_buffer, target_direction>>

\* line 608
InsertDottedCircle ==
    /\ pc = "dotted_circle"
    /\ Log("rb_insert_dotted_circle", << >>)
    /\ pc' = "clusters"
    /\ UNCHANGED <<planVars, maskVars, entry_buffer, buffer, target_direction>>

\* line 610
FormClusters ==
    /\ pc = "clusters"
    /\ Log("rb_form_clusters", << >>)
    /\ pc' = "native_direction"
    /\ UNCHANGED <<planVars, maskVars, entry_buffer, buffer, target_direction>>

\* line 612: rb_ensure_native_direction keeps the direction or reverses it.
NativeDirections(d) == {d, Reverse(d)}

EnsureNativeDirection ==
    /\ pc = "native_direction"
    /\ \E d \in NativeDirections(buffer.direction) :
          /\ buffer' = [buffer EXCEPT !.direction = d]
          /\ Log("rb_ensure_native_direction",
                 IF d # buffer.direction THEN <<"direction_reversed">> ELSE << >>)
    /\ pc' = "preprocess"
    /\ UNCHANGED <<planVars, maskVars, entry_buffer, target_direction>>

\* line 614
PreprocessText ==
    /\ pc = "preprocess"
    /\ Log("rb_ot_complex_shaper_preprocess_text", << >>)
    /\ pc' = "substitute_pre"
    /\ UNCHANGED <<planVars, maskVars, entry_buffer, buffer, target_direction>>

\* line 616
SubstitutePre ==
    /\ pc = "substitute_pre"
    /\ Log("rb_ot_substitute_pre", rb_ot_substitute_pre(plan))
    /\ pc' = "position"
    /\ UNCHANGED <<planVars, maskVars, entry_buffer, buffer, target_direction>>

\* line 617
Position ==
    /\ pc = "position"
    /\ Log("rb_ot_position", rb_ot_position(plan, buffer))
    /\ pc' = "substitute_post"
    /\ UNCHANGED <<planVars, maskVars, entry_buffer, buffer, target_direction>>

\* line 618
SubstitutePost ==
    /\ pc = "substitute_post"
    /\ Log("rb_ot_substitute_post", rb_ot_substitute_post(plan))
    /\ pc' = "propagate"
    /\ UNCHANGED <<planVars, maskVars, entry_buffer, buffer, target_direction>>

\* Faulty variant: the call of rb_propagate_flags left out
PropagateFlags_Omitted ==
    /\ pc = "propagate"
    /\ pc' = "restore"
    /\ UNCHANGED <<planVars, maskVars, entry_buffer, buffer, target_direction, calls>>

\* line 620
PropagateFlags ==
    /\ pc = "propagate"
    /\ Log("rb_propagate_flags", << >>)
    /\ pc' = "restore"
    /\ UNCHANGED <<planVars, maskVars, entry_buffer, buffer, target_direction>>

\* Faulty variant: the direction is not restored
RestoredDirection_Kept(b, target) == b.direction

\* line 622
RestoredDirection(b, target) == target

RestoreDirection ==
    /\ pc = "restore"
    /\ buffer' = [buffer EXCEPT !.direction = RestoredDirection(buffer, target_direction)]
    /\ Log("rb_buffer_set_direction", << >>)
    /\ pc' = "reset_caps"
    /\ UNCHANGED <<planVars, maskVars, entry_buffer, target_direction>>

\* lines 624-625
ResetCaps ==
    /\ pc = "reset_caps"
    /\ buffer' = [buffer EXCEPT !.max_len = ToU32(RB_BUFFER_MAX_LEN_DEFAULT),
                                !.max_ops = ToU32(RB_BUFFER_MAX_OPS_DEFAULT)]
    /\ Log("reset_caps", <<"rb_buffer_set_max_len", "rb_buffer_set_max_ops">>)
    /\ pc' = "shape_done"
    /\ UNCHANGED <<planVars, maskVars, entry_buffer, target_direction>>

\* The state after plan construction: any plan compile() produces.
Init ==
    /\ pc = "plan_ready"
    /\ \E f \in Faces, p \in [direction : Directions], s \in Shapers, m \in PlanMaps :
         \E r \in (IF rb_apply_morx(f, p) THEN ReconsiderChoices(s) ELSE {s}) :
            /\ plan = CompilePlan(ZeroPlan, NewPlanner(f, p, s, r), p, f, m)
            /\ cmap = m
            /\ props = p
    /\ face = NoFace
    /\ planner = NullPlanner
    /\ builder = << >>
    /\ resources = ReadyResources
    /\ buffer = NoBuffer
    /\ target_direction = "INVALID"
    /\ calls = << >>
    /\ entry_buffer = NoBuffer
    /\ info = << >>
    /\ user_features = << >>
    /\ fi = 0
    /\ unsafe = << >>
    /\ nset = 0
    /\ scan = NoScan
    /\ entry_info = << >>

Next ==
    \/ ShapeCall \/ ResetScratchFlags \/ SetCaps \/ RecordTargetDirection
    \/ ClearOutput \/ InitializeMasks \/ SetUnicodeProps \/ InsertDottedCircle
    \/ FormClusters \/ EnsureNativeDirection \/ PreprocessText \/ SubstitutePre
    \/ Position \/ SubstitutePost \/ PropagateFlags \/ RestoreDirection \/ ResetCaps

Spec == Init /\ [][Next]_vars

(***************************************************************************)
(* Mask setup on the glyph array: rb_ot_shape_setup_masks.  Glyph indices  *)
(* are the code's (from 0); glyph i is info[i + 1].                        *)
(***************************************************************************)
MaxGlyphs   == 3
MaxFeatures == 2

FRACTION_SLASH == 8260   \* 0x2044

\* DIGIT ONE, LATIN SMALL LETTER A, FRACTION SLASH, ARABIC-INDIC DIGIT ONE
Codepoints == {49, 97, FRACTION_SLASH, 1633}

\* rb_glyph_info_get_general_category, as rb_set_unicode_props stored it
GeneralCategory(cp) ==
    CASE cp = 49 \/ cp = 1633   -> "DECIMAL_NUMBER"
      [] cp = FRACTION_SLASH    -> "MATH_SYMBOL"
      [] OTHER                  -> "LOWERCASE_LETTER"

IsDigit(g) == g.general_category = "DECIMAL_NUMBER"

Glyph(cp, mask) == [codepoint |-> cp, general_category |-> GeneralCategory(cp), mask |-> mask]

\* rb_set_unicode_props sets HAS_NON_ASCII when a codepoint is not ASCII
ScratchFlagsOf(cps) ==
    IF \E k \in 1..Len(cps) : cps[k] >= 128 THEN {"HAS_NON_ASCII"} ELSE {}

\* lines 402-404
RECURSIVE SpanStart(_, _)
SpanStart(inf, start) ==
    IF start > 0 /\ IsDigit(inf[(start - 1) + 1]) THEN SpanStart(inf, start - 1) ELSE start

\* lines 405-407
RECURSIVE SpanEnd(_, _, _)
SpanEnd(inf, end, count) ==
    IF end < count /\ IsDigit(inf[end + 1]) THEN SpanEnd(inf, end + 1, count) ELSE end

\* Faulty variant: has_frac is not asked
FractionSkipped_FlagOnly(b, pl) == ~("HAS_NON_ASCII" \in b.scratch_flags)

\* lines 382-383: whether the fraction pass returns at once
FractionSkipped(b, pl) == ~("HAS_NON_ASCII" \in b.scratch_flags) \/ ~pl.has_frac

\* Faulty variant: the direction is not asked
PreMask_Unswapped(b, pl) == BitOr(pl.numr_mask, pl.frac_mask)

\* lines 388-394
PreMask(b, pl) ==
    IF IsForward(b.direction) THEN BitOr(pl.numr_mask, pl.frac_mask)
                              ELSE BitOr(pl.frac_mask, pl.dnom_mask)

PostMask(b, pl) ==
    IF IsForward(b.direction) THEN BitOr(pl.frac_mask, pl.dnom_mask)
                              ELSE BitOr(pl.numr_mask, pl.frac_mask)

\* lines 411-415: the masks after a slash at i with span [start, end)
FractionMasks(inf, pl, sc, start, i, end) ==
    [k \in 1..Len(inf) |->
        LET j == k - 1 IN
        IF start <= j /\ j < i     THEN [inf[k] EXCEPT !.mask = BitOr(@, sc.pre_mask)]
        ELSE IF j = i              THEN [inf[k] EXCEPT !.mask = BitOr(@, pl.frac_mask)]
        ELSE IF i < j /\ j < end   THEN [inf[k] EXCEPT !.mask = BitOr(@, sc.post_mask)]
        ELSE inf[k]]

\* Faulty variant: the index is left at the slash
ScanAfterSlash_NotMoved(i, start, end) == i

\* line 417: the index after a slash at i with span [start, end); the loop's
\* i++ (line 398) follows.
ScanAfterSlash(i, start, end) == end - 1

\* lines 380-397: entry of rb_ot_shape_setup_masks_fraction
FractionEnter ==
    /\ pc = "setup_masks"
    /\ IF FractionSkipped(buffer, plan)
          THEN /\ pc' = "shaper_masks"
               /\ scan' = scan
          ELSE /\ pc' = "fraction_loop"
               /\ scan' = [i |-> 0, count |-> Len(info),
                           pre_mask |-> PreMask(buffer, plan),
                           post_mask |-> PostMask(buffer, plan)]
    /\ UNCHANGED <<planVars, shapeVars, info, user_features, fi, unsafe, nset, entry_info>>

\* lines 398-419: one iteration of the scan
FractionIter ==
    /\ pc = "fraction_loop"
    /\ scan.i < scan.count
    /\ IF info[scan.i + 1].codepoint = FRACTION_SLASH
          THEN LET start == SpanStart(info, scan.i)
                   end   == SpanEnd(info, scan.i + 1, scan.count)
               IN  /\ unsafe' = Append(unsafe, [start |-> start, end |-> end])
                   /\ info' = FractionMasks(info, plan, scan, start, scan.i, end)
                   /\ scan' = [scan EXCEPT !.i = ScanAfterSlash(scan.i, start, end) + 1]
          ELSE /\ scan' = [scan EXCEPT !.i = @ + 1]
               /\ UNCHANGED <<info, unsafe>>
    /\ pc' = pc
    /\ UNCHANGED <<planVars, shapeVars, user_features, fi, nset, entry_info>>

\* line 398: the scan ends
FractionExit ==
    /\ pc = "fraction_loop"
    /\ ~(scan.i < scan.count)
    /\ pc' = "shaper_masks"
    /\ UNCHANGED <<planVars, shapeVars, maskVars>>

\* line 437: rb_ot_complex_shaper_setup_masks.  The default shaper has no
\* hook; the Arabic one ORs a feature bit of its own into the masks.
ArabicShaper == MkShaper("arabic", "BY_GDEF_LATE", TRUE, "none")

ShaperFeatureMask == [mask |-> 256, shift |-> 8]

ShaperMasks(sh, inf) ==
    IF sh.name = "arabic"
        THEN [k \in 1..Len(inf) |-> [inf[k] EXCEPT !.mask = BitOr(@, ShaperFeatureMask.mask)]]
        ELSE inf

ShaperSetupMasks ==
    /\ pc = "shaper_masks"
    /\ info' = ShaperMasks(plan.shaper, info)
    /\ pc' = "user_masks"
    /\ UNCHANGED <<planVars, shapeVars, user_features, fi, unsafe, nset, scan, entry_info>>

\* rb_buffer_set_masks(buffer, value, mask, start, end): the glyphs of
\* [start, end) get the bits of mask set to value & mask.
rb_buffer_set_masks(inf, value, mask, start, end) ==
    [k \in 1..Len(inf) |->
        IF ~U32Less(ToU32(k - 1), start) /\ U32Less(ToU32(k - 1), end)
            THEN [inf[k] EXCEPT !.mask = BitOr(BitClear(@, mask), BitAnd(value, mask))]
            ELSE inf[k]]

\* Faulty variant: the span is not tested
ApplyUserFeature_AnySpan(inf, m, ft) ==
    rb_buffer_set_masks(inf,
        ShiftLeft(ft.value, rb_ot_map_get_shift(m, ft.tag)),
        rb_ot_map_get_mask(m, ft.tag), ft.start, ft.end)

\* lines 440-445: the body of the loop for one user feature
ApplyUserFeature(inf, m, ft) ==
    IF ~IsGlobalSpan(ft)
        THEN rb_buffer_set_masks(inf,
                 ShiftLeft(ft.value, rb_ot_map_get_shift(m, ft.tag)),
                 rb_ot_map_get_mask(m, ft.tag), ft.start, ft.end)
        ELSE inf

\* The user features shape() is handed: ranged ones of a tag with bits of its
\* own (values that fit the bits and one that does not), and a global one.
FeatureInputs ==
    [tag : {"smcp"}, value : {1, 6}, start : {ToU32(1)}, end : {ToU32(3)}]
    \cup [tag : {"frac"}, value : {1}, start : {ToU32(1)}, end : {ToU32(3)}]
    \cup [tag : {"smcp"}, value : {1}, start : {GlobalStart}, end : {GlobalEnd}]

\* lines 439-446: one iteration of the loop over the user features; the
\* feature read is appended to user_features.  The loop ends when fi is
\* num_user_features, which is any number up to MaxFeatures: every state at
\* "user_masks" is a state rb_ot_shape_setup_masks may return in.
UserFeatureMask ==
    /\ pc = "user_masks"
    /\ fi < MaxFeatures
    /\ \E ft \in FeatureInputs :
          /\ user_features' = Append(user_features, ft)
          /\ info' = ApplyUserFeature(info, cmap, ft)
          /\ nset' = IF ~IsGlobalSpan(ft) THEN nset + 1 ELSE nset
    /\ fi' = fi + 1
    /\ pc' = pc
    /\ UNCHANGED <<planVars, shapeVars, unsafe, scan, entry_info>>

\* The maps of a font with or without frac, numr, dnom and smcp.
MaskMaps == { MapOf(ts \cup {"kern", "trak", "mark"}, TRUE, "DFLT") :
                ts \in SUBSET {"frac", "numr", "dnom", "smcp"} }

\* An OpenType face: GSUB, GPOS and GDEF, no AAT tables.
OpenTypeFace ==
    [aat_has_substitution |-> FALSE, ot_has_substitution |-> TRUE,
     aat_has_positioning |-> FALSE, ot_has_positioning |-> TRUE,
     ot_has_kerning |-> FALSE, ot_has_machine_kerning |-> FALSE,
     ot_has_cross_kerning |-> FALSE, aat_has_tracking |-> FALSE,
     has_glyph_classes |-> TRUE]

GlyphArrays ==
    UNION { [1..n -> Codepoints] : n \in 0..MaxGlyphs }

\* The state rb_ot_shape_setup_masks is entered in: masks as
\* rb_ot_shape_initialize_masks left them, scratch flags as
\* rb_set_unicode_props set them, direction as rb_ensure_native_direction did.
InitMasks ==
    /\ pc = "setup_masks"
    /\ face = OpenTypeFace
    /\ \E p \in [direction : Directions], m \in MaskMaps,
          sh \in {DefaultShaper, ArabicShaper}, cps \in GlyphArrays :
         /\ props = p
         /\ cmap = m
         /\ planner = NewPlanner(face, p, sh, sh)
         /\ plan = CompilePlan(ZeroPlan, planner, p, face, m)
         /\ info = [k \in 1..Len(cps) |-> Glyph(cps[k], rb_ot_map_get_global_mask(m))]
         /\ buffer = [direction |-> p.direction, length |-> ToU32(Len(cps)),
                      scratch_flags |-> ScratchFlagsOf(cps),
                      max_len |-> ToU32(RB_BUFFER_MAX_LEN_DEFAULT),
                      max_ops |-> ToU32(RB_BUFFER_MAX_OPS_DEFAULT)]
         /\ target_direction = p.direction
    /\ builder = << >>
    /\ resources = ReadyResources
    /\ calls = << >>
    /\ entry_buffer = NoBuffer
    /\ user_features = << >>
    /\ fi = 0
    /\ unsafe = << >>
    /\ nset = 0
    /\ scan = NoScan
    /\ entry_info = << >>

NextMasks ==
    \/ FractionEnter \/ FractionIter \/ FractionExit
    \/ ShaperSetupMasks \/ UserFeatureMask

SpecMasks == InitMasks /\ [][NextMasks]_vars

\* rb_ot_shape_setup_masks_fraction alone, from every state
\* rb_ot_shape_setup_masks is entered in.  The loop is sequential code: a
\* step that can be taken is taken.
NextFraction == FractionEnter \/ FractionIter \/ FractionExit

SpecFraction == InitMasks /\ [][NextFraction]_vars /\ WF_vars(NextFraction)

(***************************************************************************)
(* Properties of the pipeline (specification Spec).                        *)
(***************************************************************************)
Range(seq) == { seq[k] : k \in 1..Len(seq) }

Count(seq, x) == Cardinality({ k \in 1..Len(seq) : seq[k] = x })

\* The calls of rb_ot_shape_internal itself, in the order of lines 589-625.
PipelineOrder ==
    << "rb_buffer_set_scratch_flags", "set_caps", "target_direction",
       "rb_buffer_clear_output", "rb_ot_shape_initialize_masks",
       "rb_set_unicode_props", "rb_insert_dotted_circle", "rb_form_clusters",
       "rb_ensure_native_direction", "rb_ot_complex_shaper_preprocess_text",
       "rb_ot_substitute_pre", "rb_ot_position", "rb_ot_substitute_post",
       "rb_propagate_flags", "rb_buffer_set_direction", "reset_caps" >>

IsPipelineStep(c) == c \in Range(PipelineOrder)

TopLevel(log) == SelectSeq(log, IsPipelineStep)

\* C1: at every point of a shape() call the pipeline steps done so far are an
\* initial part of the fixed order (reset scratch flags, caps, target
\* direction, clear_output, initialize masks, set_unicode_props,
\* insert_dotted_circle, form_clusters, ensure_native_direction,
\* preprocess_text, substitute_pre, position, substitute_post,
\* propagate_flags, restore direction, reset caps), and when shape() returns
\* all sixteen have been done, once each, in that order.
C1_PipelineOrder ==
    LET t == TopLevel(calls) IN
    /\ Len(t) <= Len(PipelineOrder)
    /\ t = SubSeq(PipelineOrder, 1, Len(t))
    /\ (pc = "shape_done" => t = PipelineOrder)

\* A shape() call has returned, for a buffer whose length overflows both caps.
C1_Witness ==
    /\ pc = "shape_done"
    /\ TopLevel(calls) = PipelineOrder
    /\ buffer.length = ToU32(2 ^ 27)

\* C2: when shape() has returned the buffer's direction is the one it was
\* entered with (the plan's props.direction, which ShapeCall gives the
\* buffer), whatever rb_ensure_native_direction did to it in between.
C2_DirectionRestored ==
    pc = "shape_done" => buffer.direction = props.direction

\* shape() has returned for an RTL buffer whose direction was reversed midway.
C2_Witness ==
    /\ pc = "shape_done"
    /\ "direction_reversed" \in Range(calls)
    /\ props.direction = "RTL"
    /\ buffer.direction = "RTL"

\* C4: a shape() call never invokes both substitution backends nor one of
\* them twice, and once substitute_pre has run exactly one was invoked: AAT
\* (morx) substitution if plan.apply_morx, OT (GSUB) substitution otherwise.
C4_OneSubstitutionBackend ==
    LET aat == Count(calls, "rb_aat_layout_substitute")
        ot  == Count(calls, "rb_ot_layout_substitute")
    IN  /\ aat + ot <= 1
        /\ ("rb_ot_substitute_pre" \in Range(calls) =>
               /\ aat = (IF plan.apply_morx THEN 1 ELSE 0)
               /\ ot  = (IF plan.apply_morx THEN 0 ELSE 1))
        /\ ("rb_ot_substitute_pre" \notin Range(calls) => aat + ot = 0)

\* shape() has returned on a morx plan, with AAT substitution invoked.
C4_Witness ==
    /\ pc = "shape_done"
    /\ plan.apply_morx
    /\ "rb_aat_layout_substitute" \in Range(calls)

\* C7: on a compiled plan fallback_mark_positioning implies
\* adjust_mark_positioning_when_zeroing, and the mark recategorizer and
\* fallback mark positioning are called in shape() only on a plan with
\* neither apply_gpos nor apply_kerx (and then both are called).
C7_FallbackMarkPositioning ==
    /\ plan.fallback_mark_positioning => plan.adjust_mark_positioning_when_zeroing
    /\ ("rb_ot_shape_fallback_mark_position_recategorize_marks" \in Range(calls)
           => ~plan.apply_gpos /\ ~plan.apply_kerx /\ plan.fallback_mark_positioning)
    /\ ("rb_ot_shape_fallback_mark_position" \in Range(calls)
           => ~plan.apply_gpos /\ ~plan.apply_kerx /\ plan.fallback_mark_positioning)
    /\ (pc = "shape_done" /\ plan.fallback_mark_positioning =>
           /\ "rb_ot_shape_fallback_mark_position_recategorize_marks" \in Range(calls)
           /\ "rb_ot_shape_fallback_mark_position" \in Range(calls))

\* shape() has returned on a plan with fallback mark positioning and OT kern.
C7_Witness ==
    /\ pc = "shape_done"
    /\ plan.fallback_mark_positioning
    /\ plan.apply_kern
    /\ "rb_ot_shape_fallback_mark_position" \in Range(calls)

(***************************************************************************)
(* Properties of plan construction (specification SpecPlan).               *)
(***************************************************************************)
Compiled == pc \in {"compiled", "plan_ready", "plan_failed", "plan_finished"}

PlannerBuilt == pc \notin {"init0", "maps_created"}

PositioningFlags(pl) ==
    Cardinality({ n \in {"kerx", "gpos", "kern"} :
                    \/ n = "kerx" /\ pl.apply_kerx
                    \/ n = "gpos" /\ pl.apply_gpos
                    \/ n = "kern" /\ pl.apply_kern })

\* apply_kerx was set by the second pass (line 164), not by the first (157).
KerxReelected ==
    /\ plan.apply_kerx
    /\ ~ElectPositioning(ZeroPlan, face, planner.apply_morx,
                         DisableGpos(planner.shaper.gpos_tag, cmap)).apply_kerx

\* C3 as stated: a compiled plan has at most one of apply_kerx, apply_gpos
\* and apply_kern set, unless apply_kerx was set by the re-election.
C3_AtMostOneFlag ==
    Compiled => (PositioningFlags(plan) <= 1 \/ KerxReelected)

\* C3: on a compiled plan apply_kerx is never set together with apply_gpos
\* or apply_kern, and apply_gpos and apply_kern are both set exactly when
\* GPOS was elected, the map has no GPOS kern feature and the face has OT
\* kerning (which needs a face without AAT positioning); no plan has
\* apply_kerx from the re-election.
C3_PositioningFlags ==
    Compiled =>
        /\ (plan.apply_kerx => ~plan.apply_gpos /\ ~plan.apply_kern)
        /\ (plan.apply_gpos /\ plan.apply_kern
              <=> plan.apply_gpos /\ ~cmap.gpos_kern_index /\ face.ot_has_kerning)
        /\ (plan.apply_gpos => ~face.aat_has_positioning)
        /\ ~KerxReelected

\* A compiled plan with both apply_gpos and apply_kern.
C3_Witness ==
    /\ pc = "compiled"
    /\ plan.apply_gpos
    /\ plan.apply_kern
    /\ ~plan.apply_kerx

\* C5: from the planner's construction on, planner.apply_morx, and on a
\* compiled plan plan.apply_morx, is aat_has_substitution(face) and
\* (direction is horizontal or not ot_has_substitution(face)).
C5_ApplyMorx ==
    LET expected == /\ face.aat_has_substitution
                    /\ (props.direction \in {"LTR", "RTL"} \/ ~face.ot_has_substitution)
    IN  /\ (PlannerBuilt => planner.apply_morx = expected)
        /\ (Compiled => plan.apply_morx = expected)

\* A vertical plan on a face with morx and GSUB: apply_morx is false.
C5_Witness ==
    /\ pc = "compiled"
    /\ face.aat_has_substitution
    /\ face.ot_has_substitution
    /\ props.direction = "TTB"
    /\ ~plan.apply_morx

\* C6: on a compiled plan requested_tracking says that the map gave trak a
\* non-zero mask, apply_trak is requested_tracking and aat_has_tracking(face),
\* and so apply_trak implies requested_tracking.
C6_ApplyTrak ==
    Compiled =>
        /\ plan.requested_tracking = (rb_ot_map_get_mask(cmap, "trak") # 0)
        /\ plan.trak_mask = rb_ot_map_get_mask(cmap, "trak")
        /\ plan.apply_trak = (plan.requested_tracking /\ face.aat_has_tracking)
        /\ (plan.apply_trak => plan.requested_tracking)

\* A compiled plan on a face with a trak table whose map has no trak feature.
C6_Witness ==
    /\ pc = "compiled"
    /\ face.aat_has_tracking
    /\ rb_ot_map_get_mask(cmap, "trak") = 0
    /\ ~plan.apply_trak

\* The consequence C6 draws for shape() (specification Spec): AAT tracking
\* is called only on a plan whose map gave trak a non-zero mask.
TrackOnlyWhenRequested ==
    "rb_aat_layout_track" \in Range(calls) =>
        plan.apply_trak /\ plan.requested_tracking /\ rb_ot_map_get_mask(cmap, "trak") # 0

(***************************************************************************)
(* Properties of mask setup (specification SpecMasks).                     *)
(***************************************************************************)
FractionTags == {"frac", "numr", "dnom"}

\* glyph j (from 0) is in the half-open span of ft
Covers(ft, j) ==
    /\ ft.start.hi = 0 /\ ft.start.lo <= j
    /\ (ft.end.hi > 0 \/ ft.end.lo > j)

Ranged(ft) == ~(ft.start = U32(0, 0) /\ ft.end = U32(65535, 65535))

FractionGuardOff == ~plan.has_frac \/ "HAS_NON_ASCII" \notin buffer.scratch_flags

\* C8 as stated: if has_frac is false or HAS_NON_ASCII is clear, no glyph
\* has a frac, numr or dnom bit at any point of mask setup.
C8_NoFractionBits ==
    FractionGuardOff =>
        \A k \in 1..Len(info), t \in FractionTags :
            BitAnd(info[k].mask, rb_ot_map_get_mask(cmap, t)) = 0

\* C8: if has_frac is false or HAS_NON_ASCII is clear, the fraction pass and
\* the shaper's setup_masks give no glyph a frac, numr or dnom bit; a glyph
\* has such a bit during mask setup only from a ranged user feature of that
\* tag whose span covers the glyph.
C8_FractionBitsOnlyFromUserFeatures ==
    FractionGuardOff =>
        \A k \in 1..Len(info), t \in FractionTags :
            BitAnd(info[k].mask, rb_ot_map_get_mask(cmap, t)) # 0 =>
                \E n \in 1..Len(user_features) :
                    /\ user_features[n].tag = t
                    /\ Ranged(user_features[n])
                    /\ Covers(user_features[n], k - 1)

\* The fraction pass and the shaper hook are over on "1/1" with a map that
\* has numr but neither frac nor dnom (has_frac false), no bit gained.
C8_Witness ==
    /\ pc = "user_masks"
    /\ fi = 0
    /\ ~plan.has_frac
    /\ plan.numr_mask # 0
    /\ "HAS_NON_ASCII" \in buffer.scratch_flags
    /\ Len(info) = 3
    /\ info[1].codepoint = 49 /\ info[2].codepoint = FRACTION_SLASH
    /\ info[3].codepoint = 49
    /\ \A k \in 1..3 : info[k].mask = rb_ot_map_get_global_mask(cmap)

\* A ranged user feature frac has set the frac bit of a glyph of an ASCII
\* buffer (HAS_NON_ASCII clear).
C8_UserFeatureWitness ==
    /\ pc = "user_masks"
    /\ "HAS_NON_ASCII" \notin buffer.scratch_flags
    /\ \E k \in 1..Len(info) : BitAnd(info[k].mask, rb_ot_map_get_mask(cmap, "frac")) # 0

IsSlash(k) == info[k].codepoint = FRACTION_SLASH

AllDigits(a, b) == \A k \in a..b : info[k].general_category = "DECIMAL_NUMBER"

\* glyph k (from 1) is in the run of digits that ends at a slash
BeforeSlash(k) == \E i \in (k + 1)..Len(info) : IsSlash(i) /\ AllDigits(k, i - 1)

\* glyph k (from 1) is in the run of digits that starts after a slash
AfterSlash(k) == \E i \in 1..(k - 1) : IsSlash(i) /\ AllDigits(i + 1, k)

ForwardBuffer == buffer.direction \in {"LTR", "TTB"}

NumrFrac == BitOr(plan.numr_mask, plan.frac_mask)

FracDnom == BitOr(plan.frac_mask, plan.dnom_mask)

ExpectedFractionBits(k) ==
    BitOr(BitOr(IF BeforeSlash(k) THEN (IF ForwardBuffer THEN NumrFrac ELSE FracDnom) ELSE 0,
                IF IsSlash(k) THEN plan.frac_mask ELSE 0),
          IF AfterSlash(k) THEN (IF ForwardBuffer THEN FracDnom ELSE NumrFrac) ELSE 0)

\* the span (indices from 0) of the slash at glyph i (from 1)
ExpectedSpan(i) ==
    [start |-> CHOOSE s \in 0..(i - 1) :
                  /\ AllDigits(s + 1, i - 1)
                  /\ (s = 0 \/ info[s].general_category # "DECIMAL_NUMBER"),
     end   |-> CHOOSE e \in i..Len(info) :
                  /\ AllDigits(i + 1, e)
                  /\ (e = Len(info) \/ info[e + 1].general_category # "DECIMAL_NUMBER")]

\* C9: when the fraction pass has run (HAS_NON_ASCII set, has_frac true),
\* every FRACTION SLASH with the maximal runs of DECIMAL_NUMBER glyphs
\* around it has had its span [start, end) flagged unsafe_to_break, once,
\* and each glyph's mask is the global mask it entered with plus: frac on a
\* slash, numr|frac on the digits before a slash and frac|dnom on the digits
\* after it in a forward buffer, the two swapped in a buffer that is not
\* forward; a glyph outside every span has gained nothing.
C9_FractionPass ==
    (pc = "shaper_masks" /\ "HAS_NON_ASCII" \in buffer.scratch_flags /\ plan.has_frac) =>
        /\ \A k \in 1..Len(info) :
              info[k].mask = BitOr(rb_ot_map_get_global_mask(cmap), ExpectedFractionBits(k))
        /\ Range(unsafe) = { ExpectedSpan(i) : i \in { k \in 1..Len(info) : IsSlash(k) } }
        /\ Len(unsafe) = Cardinality({ k \in 1..Len(info) : IsSlash(k) })

\* The pass has run on "1/1" in an RTL buffer with frac, numr and dnom in
\* the map: dnom|frac before the slash, numr|frac after it.
C9_Witness ==
    /\ pc = "shaper_masks"
    /\ buffer.direction = "RTL"
    /\ Len(info) = 3
    /\ info[1].codepoint = 49 /\ info[2].codepoint = FRACTION_SLASH
    /\ info[3].codepoint = 49
    /\ plan.frac_mask = 4 /\ plan.numr_mask = 8 /\ plan.dnom_mask = 16
    /\ info[1].mask = 22 /\ info[2].mask = 6 /\ info[3].mask = 14
    /\ unsafe = << [start |-> 0, end |-> 3] >>

\* C10: each step of the loop over the user features either reads a feature
\* with the global span, and then calls no set_masks and changes no glyph,
\* or reads a ranged feature, and then calls set_masks once, after which
\* exactly the glyphs of [start, end) have the bits of the feature's mask
\* equal to (value << shift) & mask, their other bits unchanged, and the
\* glyphs outside [start, end) are unchanged.
C10_UserFeatureRanges ==
    [][ (pc = "user_masks" /\ fi' = fi + 1) =>
          LET ft    == user_features'[fi']
              mask  == cmap.mask[ft.tag]
              shift == cmap.shift[ft.tag]
          IN  IF ~Ranged(ft)
                 THEN info' = info /\ nset' = nset
                 ELSE /\ nset' = nset + 1
                      /\ Len(info') = Len(info)
                      /\ \A k \in 1..Len(info) :
                            IF Covers(ft, k - 1)
                               THEN /\ BitAnd(info'[k].mask, mask)
                                         = BitAnd(ShiftLeft(ft.value, shift), mask)
                                    /\ BitClear(info'[k].mask, mask) = BitClear(info[k].mask, mask)
                                    /\ info'[k].codepoint = info[k].codepoint
                               ELSE info'[k] = info[k] ]_vars

\* smcp = 1 then smcp = 6 on [1, 3) of three glyphs: glyphs 1 and 2 hold
\* (6 << 5) & 96 = 64 in the smcp bits, glyph 0 holds none.
C10_Witness ==
    /\ pc = "user_masks"
    /\ fi = 2
    /\ nset = 2
    /\ user_features[1] = [tag |-> "smcp", value |-> 1, start |-> ToU32(1), end |-> ToU32(3)]
    /\ user_features[2] = [tag |-> "smcp", value |-> 6, start |-> ToU32(1), end |-> ToU32(3)]
    /\ cmap.mask["smcp"] = 96
    /\ Len(info) = 3
    /\ BitAnd(info[1].mask, 96) = 0
    /\ BitAnd(info[2].mask, 96) = 64
    /\ BitAnd(info[3].mask, 96) = 64


(***************************************************************************)
(* Positioning in shape() (specification Spec).                            *)
(***************************************************************************)
PositioningBackends ==
    {"rb_ot_layout_position", "rb_aat_layout_position", "rb_ot_layout_kern",
     "rb_ot_shape_fallback_kern"}

\* the positions in the log at which x was called
Calls(x) == { k \in 1..Len(calls) : calls[k] = x }

BackendCalls == { k \in 1..Len(calls) : calls[k] \in PositioningBackends }

\* C15: a shape() call invokes no positioning backend before rb_ot_position
\* and exactly one in it: OT positioning if apply_gpos, else AAT positioning
\* if apply_kerx, else OT kern if apply_kern, else fallback kerning; AAT
\* tracking is invoked iff apply_trak, once, right after that backend.
C15_PositioningDispatch ==
    IF "rb_ot_position" \notin Range(calls)
       THEN BackendCalls = {} /\ Calls("rb_aat_layout_track") = {}
       ELSE /\ Cardinality(BackendCalls) = 1
            /\ \A k \in BackendCalls :
                  /\ (plan.apply_gpos => calls[k] = "rb_ot_layout_position")
                  /\ (~plan.apply_gpos /\ plan.apply_kerx
                         => calls[k] = "rb_aat_layout_position")
                  /\ (~plan.apply_gpos /\ ~plan.apply_kerx /\ plan.apply_kern
                         => calls[k] = "rb_ot_layout_kern")
                  /\ (~plan.apply_gpos /\ ~plan.apply_kerx /\ ~plan.apply_kern
                         => calls[k] = "rb_ot_shape_fallback_kern")
                  /\ Calls("rb_aat_layout_track")
                        = (IF plan.apply_trak THEN {k + 1} ELSE {})

\* shape() has returned on a plan with apply_gpos, apply_kern and apply_trak:
\* OT positioning and tracking were invoked, OT kern was not.
C15_Witness ==
    /\ pc = "shape_done"
    /\ plan.apply_gpos /\ plan.apply_kern /\ plan.apply_trak
    /\ "rb_ot_layout_position" \in Range(calls)
    /\ "rb_ot_layout_kern" \notin Range(calls)
    /\ "rb_aat_layout_track" \in Range(calls)


(***************************************************************************)
(* GPOS together with kerx (specification SpecPlan).                       *)
(***************************************************************************)
\* The faces and maps on which GPOS and kerx could meet: AAT and OT
\* positioning both present, GPOS electable, no kern feature in GPOS.
GposAndKerxCandidate ==
    /\ face.aat_has_positioning
    /\ face.ot_has_positioning
    /\ ~planner.apply_morx
    /\ ~DisableGpos(planner.shaper.gpos_tag, cmap)
    /\ ~cmap.gpos_kern_index

\* C16 as stated: on such a face the plan has apply_gpos from the first
\* election and apply_kerx from the re-election.
C16_GposWithKerx ==
    Compiled /\ GposAndKerxCandidate => plan.apply_gpos /\ plan.apply_kerx

\* C16: no compiled plan has apply_gpos and apply_kerx both set: on a face
\* with AAT positioning apply_kerx is set (by the first election) and
\* apply_gpos is not, and on a face without it apply_kerx is not set.
C16_NeverGposWithKerx ==
    Compiled =>
        /\ ~(plan.apply_gpos /\ plan.apply_kerx)
        /\ (face.aat_has_positioning => plan.apply_kerx /\ ~plan.apply_gpos)
        /\ (~face.aat_has_positioning => ~plan.apply_kerx)

\* A plan compiled on a face with AAT and OT positioning, GPOS electable and
\* without a kern feature: kerx alone.
C16_Witness ==
    /\ pc = "compiled"
    /\ GposAndKerxCandidate
    /\ plan.apply_kerx
    /\ ~plan.apply_gpos


(***************************************************************************)
(* Zeroing of mark widths in shape() (specification Spec).                 *)
(***************************************************************************)
ZeroingCalls == Calls("rb_zero_mark_widths_by_gdef")

ZeroWidthMarksMode == plan.shaper.zero_width_marks

C17_EarlyWitness ==
    /\ pc = "shape_done"
    /\ plan.zero_marks
    /\ ZeroWidthMarksMode = "BY_GDEF_EARLY"
    /\ \E k \in ZeroingCalls : \A b \in BackendCalls : k < b


(***************************************************************************)
(* The shaper and the script's flags (specification SpecPlan).             *)
(***************************************************************************)
\* C18: the planner's script_zero_marks and script_fallback_mark_positioning
\* are those of the shaper categorize returned; when morx applies the
\* planner's (and the plan's) shaper is the one reconsider returned, and
\* when it does not, reconsider is not called and the shaper is the
\* categorized one; plan.zero_marks and plan.fallback_mark_positioning are
\* computed from the flags of the categorized shaper.
C18_ShaperReconsidered ==
    /\ (PlannerBuilt =>
          /\ planner.script_zero_marks = (planner.categorized.zero_width_marks # "NONE")
          /\ planner.script_fallback_mark_positioning = planner.categorized.fallback_position
          /\ (planner.apply_morx => planner.shaper = planner.reconsidered)
          /\ (~planner.apply_morx =>
                 planner.reconsidered = NullShaper /\ planner.shaper = planner.categorized))
    /\ (Compiled =>
          /\ plan.shaper = planner.shaper
          /\ plan.zero_marks =
                (/\ planner.categorized.zero_width_marks # "NONE"
                 /\ ~plan.apply_kerx
                 /\ (~plan.apply_kern \/ ~face.ot_has_machine_kerning))
          /\ plan.fallback_mark_positioning =
                (/\ plan.adjust_mark_positioning_when_zeroing
                 /\ planner.categorized.fallback_position))

\* A morx plan whose categorized shaper zeroes marks and positions them by
\* fallback, and whose reconsidered shaper does neither: the plan has the
\* reconsidered shaper and the flags of the categorized one.
C18_Witness ==
    /\ pc = "compiled"
    /\ plan.apply_morx
    /\ planner.categorized.zero_width_marks = "BY_GDEF_LATE"
    /\ planner.categorized.fallback_position
    /\ plan.shaper.zero_width_marks = "NONE"
    /\ ~plan.shaper.fallback_position
    /\ plan.shaper = planner.reconsidered
    /\ plan.zero_marks
    /\ plan.fallback_mark_positioning


(***************************************************************************)
(* The feature collector (specification SpecPlan).                         *)
(***************************************************************************)
Collected == pc \notin {"init0", "maps_created", "planner"}

\* the (call, tag) pairs of the map-builder calls made
OpsAndTags == [i \in 1..Len(builder) |-> <<builder[i].op, builder[i].tag>>]

ExpectedDirectionOps ==
    CASE props.direction = "LTR" -> << <<"enable", "ltra">>, <<"enable", "ltrm">> >>
      [] props.direction = "RTL" -> << <<"enable", "rtla">>, <<"add", "rtlm">> >>
      [] OTHER -> << >>

ExpectedScriptOps ==
    IF props.direction \in {"LTR", "RTL"}
       THEN << <<"add", "calt">>, <<"add", "clig">>, <<"add", "curs">>, <<"add", "dist">>,
               <<"add", "kern">>, <<"add", "liga">>, <<"add", "rclt">> >>
       ELSE << <<"enable", "vert">> >>

ExpectedOps ==
       << <<"enable", "rvrn">>, <<"gsub_pause", "">> >>
    \o ExpectedDirectionOps
    \o << <<"add", "frac">>, <<"add", "numr">>, <<"add", "dnom">>, <<"enable", "rand">>,
          <<"enable", "trak">>, <<"enable", "HARF">>,
          <<"shaper_collect_features", planner.shaper.name>>, <<"enable", "BUZZ">>,
          <<"add", "abvm">>, <<"add", "blwm">>, <<"add", "ccmp">>, <<"add", "locl">>,
          <<"add", "mark">>, <<"add", "mkmk">>, <<"add", "rlig">> >>
    \o ExpectedScriptOps
    \o [i \in 1..Len(user_features) |-> <<"add", user_features[i].tag>>]
    \o (IF planner.apply_morx
           THEN [i \in 1..Len(user_features) |-> <<"aat_add", user_features[i].tag>>]
           ELSE << >>)
    \o << <<"shaper_override_features", planner.shaper.name>> >>

\* the position of the first user feature's call, less one
UserFeatureBase == 17 + Len(ExpectedDirectionOps) + Len(ExpectedScriptOps)

BuilderCalls(op, tag) ==
    { k \in 1..Len(builder) : builder[k].op = op /\ builder[k].tag = tag }

\* C19: the collector's calls of the map builder are, in this order: enable
\* rvrn, GSUB pause, the direction's features, add frac, numr, dnom, enable
\* rand, trak, HARF, the shaper's collect_features, enable BUZZ, the common
\* features, the horizontal features or enable vert, the user features
\* (flag F_GLOBAL iff the span is global, with the feature's value), the AAT
\* replay iff apply_morx, and the shaper's override_features; the shaper
\* collects strictly between HARF and BUZZ.
C19_CollectorOrder ==
    Collected =>
        /\ OpsAndTags = ExpectedOps
        /\ \A i \in 1..Len(user_features) :
              /\ builder[UserFeatureBase + i].value = user_features[i].value
              /\ (builder[UserFeatureBase + i].flags = "F_GLOBAL")
                    <=> ~Ranged(user_features[i])
              /\ builder[UserFeatureBase + i].flags \in {"F_GLOBAL", "F_NONE"}
        /\ \A h \in BuilderCalls("enable", "HARF"), z \in BuilderCalls("enable", "BUZZ") :
              \A c \in 1..Len(builder) :
                  builder[c].op = "shaper_collect_features" => h < c /\ c < z

\* The collector has run for an RTL morx planner with a ranged and a global
\* user feature: both are registered, then replayed to the AAT map builder.
C19_Witness ==
    /\ pc = "collected"
    /\ props.direction = "RTL"
    /\ planner.apply_morx
    /\ Len(user_features) = 2
    /\ Len(builder) = 31
    /\ builder[4] = Call("add", "rtlm", "F_NONE", 1)
    /\ builder[27].flags = "F_NONE" /\ builder[28].flags = "F_GLOBAL"
    /\ builder[29].op = "aat_add"
    /\ builder[31].op = "shaper_override_features"


(***************************************************************************)
(* Resources of plan construction (specification SpecPlan).                *)
(***************************************************************************)
Live(r) == resources.acquired[r] - resources.released[r]

ReleasedOnce(r) == resources.acquired[r] = 1 /\ resources.released[r] = 1

\* C13: nothing is acquired twice, or released more often than acquired;
\* init0 returns false exactly when data_create failed (no data acquired),
\* having released the compiled map and the AAT map once each; on both
\* returns the planner's map builder was released once; after a true return
\* the maps and the data are live, and fini releases each of them once.
C13_PlanResources ==
    /\ \A r \in Resources :
          resources.released[r] <= resources.acquired[r] /\ resources.acquired[r] <= 1
    /\ (pc = "plan_failed" =>
          /\ resources.acquired["data"] = 0
          /\ ReleasedOnce("map") /\ ReleasedOnce("aat_map") /\ ReleasedOnce("builder"))
    /\ (pc = "plan_ready" =>
          /\ resources.acquired["data"] = 1
          /\ Live("map") = 1 /\ Live("aat_map") = 1 /\ Live("data") = 1
          /\ ReleasedOnce("builder"))
    /\ (pc = "plan_finished" => \A r \in Resources : ReleasedOnce(r))
    /\ (pc \in {"maps_created", "planner", "collected", "compiled"} =>
          \A r \in Resources : resources.released[r] = 0)

\* init0 has returned false after a compile that elected GPOS: everything
\* it acquired is released.
C13_Witness ==
    /\ pc = "plan_failed"
    /\ plan.apply_gpos
    /\ \A r \in Resources : Live(r) = 0
    /\ resources.acquired["map"] = 1

\* init0 returned true and fini has run.
C13_FiniWitness ==
    /\ pc = "plan_finished"
    /\ \A r \in Resources : ReleasedOnce(r)


(***************************************************************************)
(* The caps max_len and max_ops (specification Spec).                      *)
(***************************************************************************)
\* length * factor exceeds 32 bits: length >= 2^32 / factor (factor a power
\* of two, so the test is one on the upper half of length)
ProductOverflows(length, factor) == length.hi >= Limb \div factor

\* max(length * factor, min) for a product that fits 32 bits
ExpectedCap(length, factor, min) ==
    LET hi == length.hi * factor + (length.lo * factor) \div Limb
        lo == (length.lo * factor) % Limb
    IN  IF hi = 0 /\ lo < min THEN U32(0, min) ELSE U32(hi, lo)

CapsSet == "set_caps" \in Range(calls) /\ "reset_caps" \notin Range(calls)

\* C20: between the cap step and the final reset, max_len is
\* max(length * LEN_FACTOR, LEN_MIN) if the product fits 32 bits and the
\* value the buffer entered with (the default) if not, and max_ops likewise
\* with OPS_FACTOR and OPS_MIN; after shape() both are the defaults.
C20_Caps ==
    /\ (CapsSet =>
          /\ buffer.max_len =
                (IF ProductOverflows(buffer.length, RB_BUFFER_MAX_LEN_FACTOR)
                    THEN ToU32(RB_BUFFER_MAX_LEN_DEFAULT)
                    ELSE ExpectedCap(buffer.length, RB_BUFFER_MAX_LEN_FACTOR,
                                     RB_BUFFER_MAX_LEN_MIN))
          /\ buffer.max_ops =
                (IF ProductOverflows(buffer.length, RB_BUFFER_MAX_OPS_FACTOR)
                    THEN ToU32(RB_BUFFER_MAX_OPS_DEFAULT)
                    ELSE ExpectedCap(buffer.length, RB_BUFFER_MAX_OPS_FACTOR,
                                     RB_BUFFER_MAX_OPS_MIN)))
    /\ (pc = "shape_done" =>
          /\ buffer.max_len = ToU32(RB_BUFFER_MAX_LEN_DEFAULT)
          /\ buffer.max_ops = ToU32(RB_BUFFER_MAX_OPS_DEFAULT))

\* A buffer of 2^26 glyphs in mid-pipeline: max_len is 2^31, and max_ops,
\* whose product does not fit, is the default.
C20_Witness ==
    /\ pc = "position"
    /\ buffer.length = U32(1024, 0)
    /\ buffer.max_len = U32(32768, 0)
    /\ buffer.max_ops = ToU32(RB_BUFFER_MAX_OPS_DEFAULT)

\* A short buffer in mid-pipeline: both caps are the minima.
C20_MinimaWitness ==
    /\ pc = "position"
    /\ buffer.length = U32(0, 3)
    /\ buffer.max_len = U32(0, RB_BUFFER_MAX_LEN_MIN)
    /\ buffer.max_ops = U32(0, RB_BUFFER_MAX_OPS_MIN)


(***************************************************************************)
(* rb_ot_rotate_chars on the glyph array: the mirroring loop and the       *)
(* vertical-form loop.                                                     *)
(***************************************************************************)
LEFT_PAREN            == 40      \* U+0028
RIGHT_PAREN           == 41      \* U+0029
FULLWIDTH_LEFT_PAREN  == 65288   \* U+FF08
FULLWIDTH_RIGHT_PAREN == 65289   \* U+FF09
VERTICAL_LEFT_PAREN   == 65077   \* U+FE35
VERTICAL_RIGHT_PAREN  == 65078   \* U+FE36

\* rb_ucd_mirroring: the Bidi_Mirroring_Glyph of the codepoint, or the
\* codepoint itself when it has none.
rb_ucd_mirroring(cp) ==
    CASE cp = LEFT_PAREN            -> RIGHT_PAREN
      [] cp = RIGHT_PAREN           -> LEFT_PAREN
      [] cp = FULLWIDTH_LEFT_PAREN  -> FULLWIDTH_RIGHT_PAREN
      [] cp = FULLWIDTH_RIGHT_PAREN -> FULLWIDTH_LEFT_PAREN
      [] OTHER                      -> cp

\* rb_vert_char_for: the vertical presentation form of the codepoint, or the
\* codepoint itself when it has none.
rb_vert_char_for(cp) ==
    CASE cp = FULLWIDTH_LEFT_PAREN  -> VERTICAL_LEFT_PAREN
      [] cp = FULLWIDTH_RIGHT_PAREN -> VERTICAL_RIGHT_PAREN
      [] OTHER                      -> cp

\* rb_face_has_glyph: the face's character map has a glyph for the codepoint
rb_face_has_glyph(f, cp) == cp \in f.glyphs

\* Faulty variant: the mirror is taken whether or not the face has it
MirrorGlyph_AnyFace(g, f, rtlm_mask) ==
    LET codepoint == rb_ucd_mirroring(g.codepoint)
    IN  IF codepoint # g.codepoint
        THEN [g EXCEPT !.codepoint = codepoint]
        ELSE [g EXCEPT !.mask = BitOr(g.mask, rtlm_mask)]

\* lines 362-367: the body of the mirroring loop
MirrorGlyph(g, f, rtlm_mask) ==
    LET codepoint == rb_ucd_mirroring(g.codepoint)
    IN  IF codepoint # g.codepoint /\ rb_face_has_glyph(f, codepoint)
        THEN [g EXCEPT !.codepoint = codepoint]
        ELSE [g EXCEPT !.mask = BitOr(g.mask, rtlm_mask)]

\* lines 373-375: the body of the vertical-form loop
VertGlyph(g, f) ==
    LET codepoint == rb_vert_char_for(g.codepoint)
    IN  IF codepoint # g.codepoint /\ rb_face_has_glyph(f, codepoint)
        THEN [g EXCEPT !.codepoint = codepoint]
        ELSE g

\* Faulty variant: the plan's vert feature is not consulted
VertLoopRuns_AnyPlan(d, p) == IsVertical(d)

\* line 371: the guard of the vertical-form loop
VertLoopRuns(d, p) == IsVertical(d) /\ ~p.has_vert

\* lines 355-357: count and info are read from the buffer
RotateEnter ==
    /\ pc = "rotate_chars"
    /\ pc' = "mirror_loop"
    /\ scan' = [NoScan EXCEPT !.i = 0, !.count = Len(info)]
    /\ entry_info' = info
    /\ UNCHANGED <<planVars, shapeVars, info, user_features, fi, unsafe, nset>>

\* lines 359-368: one iteration of the mirroring loop
MirrorIter ==
    /\ pc = "mirror_loop"
    /\ IsBackward(target_direction)
    /\ scan.i < scan.count
    /\ info' = [info EXCEPT ![scan.i + 1] = MirrorGlyph(@, face, plan.rtlm_mask)]
    /\ scan' = [scan EXCEPT !.i = @ + 1]
    /\ pc' = pc
    /\ UNCHANGED <<planVars, shapeVars, user_features, fi, unsafe, nset, entry_info>>

\* lines 359, 361: the target is forward, or the mirroring loop has ended
MirrorExit ==
    /\ pc = "mirror_loop"
    /\ ~IsBackward(target_direction) \/ scan.i >= scan.count
    /\ pc' = "vert_loop"
    /\ scan' = [scan EXCEPT !.i = 0]
    /\ entry_info' = info
    /\ UNCHANGED <<planVars, shapeVars, info, user_features, fi, unsafe, nset>>

\* lines 371-376: one iteration of the vertical-form loop
VertIter ==
    /\ pc = "vert_loop"
    /\ VertLoopRuns(target_direction, plan)
    /\ scan.i < scan.count
    /\ info' = [info EXCEPT ![scan.i + 1] = VertGlyph(@, face)]
    /\ scan' = [scan EXCEPT !.i = @ + 1]
    /\ pc' = pc
    /\ UNCHANGED <<planVars, shapeVars, user_features, fi, unsafe, nset, entry_info>>

\* lines 371, 372, 378: the loop is not entered, or it has ended
VertExit ==
    /\ pc = "vert_loop"
    /\ ~VertLoopRuns(target_direction, plan) \/ scan.i >= scan.count
    /\ pc' = "rotate_done"
    /\ UNCHANGED <<planVars, shapeVars, maskVars>>

\* The codepoints of the glyph arrays rotated here
RotateCodepoints == {LEFT_PAREN, 97, FULLWIDTH_LEFT_PAREN}

RotateGlyphArrays ==
    UNION { [1..n -> RotateCodepoints] : n \in 0..MaxGlyphs }

\* The codepoints a face may or may not have a glyph for
OptionalGlyphs ==
    {RIGHT_PAREN, FULLWIDTH_RIGHT_PAREN, VERTICAL_LEFT_PAREN, VERTICAL_RIGHT_PAREN}

\* OpenType faces with every set of the optional glyphs
RotateFaces ==
    { [aat_has_substitution |-> FALSE, ot_has_substitution |-> TRUE,
       aat_has_positioning |-> FALSE, ot_has_positioning |-> TRUE,
       ot_has_kerning |-> FALSE, ot_has_machine_kerning |-> FALSE,
       ot_has_cross_kerning |-> FALSE, aat_has_tracking |-> FALSE,
       has_glyph_classes |-> TRUE,
       glyphs |-> RotateCodepoints \cup gs] : gs \in SUBSET OptionalGlyphs }

\* The maps of a font with or without rtlm and vert
RotateMaps == { MapOf(ts \cup {"kern", "mark"}, TRUE, "DFLT") :
                  ts \in SUBSET {"rtlm", "vert"} }

\* The state rb_ot_rotate_chars is entered in (from rb_ot_substitute_default,
\* line 453): masks as rb_ot_shape_initialize_masks left them,
\* target_direction as recorded at entry.
InitRotate ==
    /\ pc = "rotate_chars"
    /\ \E f \in RotateFaces, d \in Directions \ {"INVALID"}, m \in RotateMaps,
          cps \in RotateGlyphArrays :
         /\ face = f
         /\ props = [direction |-> d]
         /\ cmap = m
         /\ planner = NewPlanner(f, props, DefaultShaper, DefaultShaper)
         /\ plan = CompilePlan(ZeroPlan, planner, props, f, m)
         /\ info = [k \in 1..Len(cps) |-> Glyph(cps[k], rb_ot_map_get_global_mask(m))]
         /\ buffer = [direction |-> d,
                      length |-> ToU32(Len(cps)),
                      scratch_flags |-> ScratchFlagsOf(cps),
                      max_len |-> ToU32(RB_BUFFER_MAX_LEN_DEFAULT),
                      max_ops |-> ToU32(RB_BUFFER_MAX_OPS_DEFAULT)]
         /\ target_direction = d
    /\ builder = << >>
    /\ resources = ReadyResources
    /\ calls = << >>
    /\ entry_buffer = NoBuffer
    /\ user_features = << >>
    /\ fi = 0
    /\ unsafe = << >>
    /\ nset = 0
    /\ scan = NoScan
    /\ entry_info = << >>

NextRotate == RotateEnter \/ MirrorIter \/ MirrorExit \/ VertIter \/ VertExit

SpecRotate == InitRotate /\ [][NextRotate]_vars


C11_ForwardWitness ==
    /\ pc = "vert_loop"
    /\ target_direction = "LTR"
    /\ scan.i = 0
    /\ \E k \in 1..Len(info) :
         /\ info[k].codepoint = LEFT_PAREN
         /\ rb_face_has_glyph(face, RIGHT_PAREN)

\* C12: the vertical-form loop replaces the codepoint of a glyph it has
\* passed by rb_vert_char_for(codepoint) if and only if the target direction
\* is vertical, plan.has_vert is false, the vertical form differs and the
\* face has a glyph for it; with has_vert or a horizontal target no
\* codepoint is replaced; no mask is changed.
C12_VerticalForms ==
    pc \in {"vert_loop", "rotate_done"} =>
        /\ Len(info) = Len(entry_info)
        /\ \A k \in 1..Len(info) :
             LET before == entry_info[k]
                 vert   == rb_vert_char_for(before.codepoint)
                 passed == pc = "rotate_done" \/ k <= scan.i
                 replaced == /\ IsVertical(target_direction)
                             /\ ~plan.has_vert
                             /\ vert # before.codepoint
                             /\ rb_face_has_glyph(face, vert)
             IN  /\ info[k].mask = before.mask
                 /\ info[k].codepoint =
                       IF passed /\ replaced THEN vert ELSE before.codepoint
                 /\ (plan.has_vert \/ IsHorizontal(target_direction))
                       => info[k].codepoint = before.codepoint

\* C12 witness: a vertical run without the vert feature has replaced one
\* codepoint by its vertical form and kept another that has one the face
\* lacks
C12_Witness ==
    /\ pc = "rotate_done"
    /\ target_direction = "TTB"
    /\ ~plan.has_vert
    /\ \E j \in 1..Len(info) :
         /\ entry_info[j].codepoint = FULLWIDTH_LEFT_PAREN
         /\ info[j].codepoint = VERTICAL_LEFT_PAREN

\* C12 witness: with the vert feature in the plan a vertical run keeps a
\* codepoint whose vertical form the face has
C12_HasVertWitness ==
    /\ pc = "rotate_done"
    /\ IsVertical(target_direction)
    /\ plan.has_vert
    /\ \E j \in 1..Len(info) :
         /\ info[j].codepoint = FULLWIDTH_LEFT_PAREN
         /\ rb_face_has_glyph(face, VERTICAL_LEFT_PAREN)


(***************************************************************************)
(* Two shape() calls on one compiled plan.  Each call has its own context  *)
(* (rb_ot_shape_context_t is a local of rb_ot_shape) and its own buffer;   *)
(* pc, buffer, target_direction, calls and entry_buffer are indexed by the *)
(* call.  A call is the record of its four variables.                      *)
(***************************************************************************)
CallIds == {1, 2}

\* Faulty variant: the buffer's direction is cached in the plan
PlanAfterStep_DirectionCached(pl, st) ==
    [pl EXCEPT !.props = [direction |-> st.buffer.direction]]

\* lines 587-626: no statement of rb_ot_shape_internal assigns through
\* c->plan; the plan after a step is the plan before it.
PlanAfterStep(pl, st) == pl

LogTo(st, step, nested) == st.calls \o <<step>> \o nested

\* lines 587-626: the steps of rb_ot_shape_internal as a function of the
\* call's own state and the plan; the set of states a step may lead to.
ShapeSteps(st, pl) ==
    LET b == st.buffer
        To(next, nb, td, step, nested) ==
            [pc |-> next, buffer |-> nb, target_direction |-> td,
             calls |-> LogTo(st, step, nested)]
        len_ok == ~rb_unsigned_mul_overflows(b.length, RB_BUFFER_MAX_LEN_FACTOR)
        ops_ok == ~rb_unsigned_mul_overflows(b.length, RB_BUFFER_MAX_OPS_FACTOR)
    IN  CASE st.pc = "shape_entry" ->
               { To("caps", [b EXCEPT !.scratch_flags = {}], st.target_direction,
                    "rb_buffer_set_scratch_flags", << >>) }
          [] st.pc = "caps" ->
               { To("target",
                    [b EXCEPT
                       !.max_len = IF len_ok
                           THEN rb_max(U32Mul(b.length, RB_BUFFER_MAX_LEN_FACTOR),
                                       ToU32(RB_BUFFER_MAX_LEN_MIN))
                           ELSE @,
                       !.max_ops = IF ops_ok
                           THEN rb_max(U32Mul(b.length, RB_BUFFER_MAX_OPS_FACTOR),
                                       ToU32(RB_BUFFER_MAX_OPS_MIN))
                           ELSE @],
                    st.target_direction, "set_caps",
                    (IF len_ok THEN <<"rb_buffer_set_max_len">> ELSE << >>)
                    \o (IF ops_ok THEN <<"rb_buffer_set_max_ops">> ELSE << >>)) }
          [] st.pc = "target" ->
               { To("clear_output", b, b.direction, "target_direction", << >>) }
          [] st.pc = "clear_output" ->
               { To("init_masks", b, st.target_direction, "rb_buffer_clear_output", << >>) }
          [] st.pc = "init_masks" ->
               { To("unicode_props", b, st.target_direction,
                    "rb_ot_shape_initialize_masks", <<"rb_buffer_reset_masks">>) }
          [] st.pc = "unicode_props" ->
               { To("dotted_circle", [b EXCEPT !.scratch_flags = @ \cup sf],
                    st.target_direction, "rb_set_unicode_props", << >>) :
                 sf \in SUBSET {"HAS_SPACE_FALLBACK"} }
          [] st.pc = "dotted_circle" ->
               { To("clusters", b, st.target_direction, "rb_insert_dotted_circle", << >>) }
          [] st.pc = "clusters" ->
               { To("native_direction", b, st.target_direction, "rb_form_clusters", << >>) }
          [] st.pc = "native_direction" ->
               { To("preprocess", [b EXCEPT !.direction = d], st.target_direction,
                    "rb_ensure_native_direction",
                    IF d # b.direction THEN <<"direction_reversed">> ELSE << >>) :
                 d \in NativeDirections(b.direction) }
          [] st.pc = "preprocess" ->
               { To("substitute_pre", b, st.target_direction,
                    "rb_ot_complex_shaper_preprocess_text", << >>) }
          [] st.pc = "substitute_pre" ->
               { To("position", b, st.target_direction,
                    "rb_ot_substitute_pre", rb_ot_substitute_pre(pl)) }
          [] st.pc = "position" ->
               { To("substitute_post", b, st.target_direction,
                    "rb_ot_position", rb_ot_position(pl, b)) }
          [] st.pc = "substitute_post" ->
               { To("propagate", b, st.target_direction,
                    "rb_ot_substitute_post", rb_ot_substitute_post(pl)) }
          [] st.pc = "propagate" ->
               { To("restore", b, st.target_direction, "rb_propagate_flags", << >>) }
          [] st.pc = "restore" ->
               { To("reset_caps",
                    [b EXCEPT !.direction = RestoredDirection(b, st.target_direction)],
                    st.target_direction, "rb_buffer_set_direction", << >>) }
          [] st.pc = "reset_caps" ->
               { To("shape_done",
                    [b EXCEPT !.max_len = ToU32(RB_BUFFER_MAX_LEN_DEFAULT),
                              !.max_ops = ToU32(RB_BUFFER_MAX_OPS_DEFAULT)],
                    st.target_direction, "reset_caps",
                    <<"rb_buffer_set_max_len", "rb_buffer_set_max_ops">>) }
          [] OTHER -> {}

\* lines 628-636: the context of a call entered with buffer b
EnteredWith(b) ==
    [pc |-> "shape_entry", buffer |-> b, target_direction |-> "INVALID", calls |-> << >>]

\* The call c as a record of its variables
CallState(c) ==
    [pc |-> pc[c], buffer |-> buffer[c], target_direction |-> target_direction[c],
     calls |-> calls[c]]

\* One step of call c; the other call's context and buffer are not touched.
SharedStep(c) ==
    \E st \in ShapeSteps(CallState(c), plan) :
        /\ pc' = [pc EXCEPT ![c] = st.pc]
        /\ buffer' = [buffer EXCEPT ![c] = st.buffer]
        /\ target_direction' = [target_direction EXCEPT ![c] = st.target_direction]
        /\ calls' = [calls EXCEPT ![c] = st.calls]
        /\ plan' = PlanAfterStep(plan, st)
        /\ UNCHANGED <<face, props, planner, builder, cmap, resources, entry_buffer,
                       maskVars>>

\* The faces the shared plans are compiled for: OpenType, AAT, no tables
SharedFaces ==
    { OpenTypeFace,
      [aat_has_substitution |-> TRUE, ot_has_substitution |-> FALSE,
       aat_has_positioning |-> TRUE, ot_has_positioning |-> FALSE,
       ot_has_kerning |-> FALSE, ot_has_machine_kerning |-> FALSE,
       ot_has_cross_kerning |-> FALSE, aat_has_tracking |-> TRUE,
       has_glyph_classes |-> FALSE],
      [aat_has_substitution |-> FALSE, ot_has_substitution |-> FALSE,
       aat_has_positioning |-> FALSE, ot_has_positioning |-> FALSE,
       ot_has_kerning |-> TRUE, ot_has_machine_kerning |-> FALSE,
       ot_has_cross_kerning |-> FALSE, aat_has_tracking |-> FALSE,
       has_glyph_classes |-> FALSE] }

\* The buffers a call on a plan may be entered with
SharedBuffers(pl) ==
    { [direction |-> pl.props.direction, length |-> n, scratch_flags |-> sf,
       max_len |-> ToU32(RB_BUFFER_MAX_LEN_DEFAULT),
       max_ops |-> ToU32(RB_BUFFER_MAX_OPS_DEFAULT)] :
      n \in {ToU32(3), ToU32(2 ^ 27)}, sf \in SUBSET {"HAS_SPACE_FALLBACK"} }

\* Two calls entered on one compiled plan, each with a buffer of its own.
InitShared ==
    /\ \E f \in SharedFaces, d \in {"LTR", "RTL", "TTB"} :
         /\ face = f
         /\ props = [direction |-> d]
         /\ cmap = MapOf(Tags, TRUE, "DFLT")
         /\ planner = NewPlanner(f, props, DefaultShaper, DefaultShaper)
         /\ plan = CompilePlan(ZeroPlan, planner, props, f, cmap)
    /\ entry_buffer \in [CallIds -> SharedBuffers(plan)]
    /\ buffer = entry_buffer
    /\ pc = [c \in CallIds |-> EnteredWith(entry_buffer[c]).pc]
    /\ target_direction = [c \in CallIds |-> EnteredWith(entry_buffer[c]).target_direction]
    /\ calls = [c \in CallIds |-> EnteredWith(entry_buffer[c]).calls]
    /\ builder = << >>
    /\ resources = ReadyResources
    /\ info = << >>
    /\ user_features = << >>
    /\ fi = 0
    /\ unsafe = << >>
    /\ nset = 0
    /\ scan = NoScan
    /\ entry_info = << >>

NextShared == SharedStep(1) \/ SharedStep(2)

SpecShared == InitShared /\ [][NextShared]_vars

\* The states a call that runs alone on plan pl ends in, from the states S,
\* after at most n steps
RECURSIVE RunAlone(_, _, _)
RunAlone(S, pl, n) ==
    IF n = 0 \/ \A st \in S : st.pc = "shape_done"
    THEN { st \in S : st.pc = "shape_done" }
    ELSE RunAlone({ st \in S : st.pc = "shape_done" }
                    \cup UNION { ShapeSteps(st, pl) : st \in S }, pl, n - 1)

\* The number of steps of rb_ot_shape_internal
PipelineSteps == 16

SoloResults(b, pl) == RunAlone({EnteredWith(b)}, pl, PipelineSteps)

\* The plan the two calls were handed
CompiledPlan == CompilePlan(ZeroPlan, planner, props, face, cmap)

PipelineAgrees ==
    [][pc # "plan_ready" =>
         [pc |-> pc', buffer |-> buffer', target_direction |-> target_direction',
          calls |-> calls']
           \in ShapeSteps([pc |-> pc, buffer |-> buffer,
                           target_direction |-> target_direction, calls |-> calls],
                          plan)]_vars


\* The direction rb_ensure_native_direction left the buffer in, read from the
\* call log: the target direction, reversed if that step reversed it.
NativeDirection ==
    IF "direction_reversed" \in Range(calls)
        THEN Reverse(target_direction) ELSE target_direction

\* The first and the last index of a call in the log
First(x) == CHOOSE k \in Calls(x) : \A j \in Calls(x) : k <= j

AdvanceCalls == Calls("rb_face_get_glyph_h_advances") \cup Calls("rb_face_get_glyph_v_advances")

\* C21: rb_ot_position clears the positions, then runs the default positioning
\* (the face's advances), then the complex positioning (from
\* rb_ot_layout_position_start to rb_ot_layout_position_finish_offsets), and
\* then reverses the buffer, once, if and only if the direction the buffer has
\* at that point (the native one, whatever the target direction is) is
\* backward; before rb_ot_position, and after it, nothing reverses the buffer.
C21_PositionStage ==
    IF "rb_ot_position" \notin Range(calls)
       THEN Calls("rb_buffer_reverse") = {}
       ELSE LET p == First("rb_ot_position")
            IN  /\ Cardinality(Calls("rb_buffer_clear_positions")) = 1
                /\ Cardinality(AdvanceCalls) = 1
                /\ Cardinality(Calls("rb_ot_layout_position_start")) = 1
                /\ Cardinality(Calls("rb_ot_layout_position_finish_offsets")) = 1
                /\ First("rb_buffer_clear_positions") = p + 1
                /\ \A a \in AdvanceCalls :
                      /\ a = p + 2
                      /\ a < First("rb_ot_layout_position_start")
                /\ First("rb_ot_layout_position_start")
                      < First("rb_ot_layout_position_finish_offsets")
                /\ Cardinality(Calls("rb_buffer_reverse"))
                      = (IF IsBackward(NativeDirection) THEN 1 ELSE 0)
                /\ \A r \in Calls("rb_buffer_reverse") :
                      /\ First("rb_ot_layout_position_finish_offsets") < r
                      /\ "rb_ot_substitute_post" \notin Range(calls)
                            \/ r < First("rb_ot_substitute_post")
                      /\ \A k \in (p + 1)..(r - 1) : ~IsPipelineStep(calls[k])

\* C21 witness: a left-to-right target whose text is natively right-to-left:
\* the buffer was reversed in rb_ot_position and shape() has returned
C21_Witness ==
    /\ pc = "shape_done"
    /\ target_direction = "LTR"
    /\ NativeDirection = "RTL"
    /\ Cardinality(Calls("rb_buffer_reverse")) = 1

\* C21 witness: a right-to-left target whose text is natively left-to-right:
\* no reversal in rb_ot_position
C21_ForwardNativeWitness ==
    /\ pc = "shape_done"
    /\ target_direction = "RTL"
    /\ NativeDirection = "LTR"
    /\ Calls("rb_buffer_reverse") = {}


\* C22: on every compiled plan apply_morx implies not apply_gpos: when morx
\* drives the substitution, OT positioning is never selected, whatever the
\* face's GPOS table and the shaper's gpos_tag are.
C22_MorxExcludesGpos ==
    Compiled => (plan.apply_morx => ~plan.apply_gpos)

\* C22 witness: a compiled plan with morx applied for a face that has a GPOS
\* table the shaper accepts and no AAT positioning
C22_Witness ==
    /\ Compiled
    /\ plan.apply_morx
    /\ face.ot_has_positioning
    /\ ~face.aat_has_positioning
    /\ ~DisableGpos(planner.shaper.gpos_tag, cmap)
    /\ ~plan.apply_gpos


\* The indices (from 0) of the FRACTION SLASH glyphs below index n
SlashesBelow(n) ==
    { k \in 0..(n - 1) : k < Len(info) /\ info[k + 1].codepoint = FRACTION_SLASH }

\* C23: the fraction scan terminates on every buffer.  An iteration on a
\* slash at index i passes one span [start, end) to unsafe_to_break with
\* start <= i < end <= length and leaves the index at end - 1, so that the
\* next index is end >= i + 1; any other iteration moves the index by one.
\* The index never moves backwards or past the length, and each FRACTION
\* SLASH below the index has been handled as a slash exactly once: there is
\* one span per slash, in order, and it holds its slash.
C23_FractionScan ==
    /\ [][pc = "fraction_loop" /\ pc' = "fraction_loop" =>
            /\ scan'.i > scan.i
            /\ scan'.i <= scan.count
            /\ IF info[scan.i + 1].codepoint = FRACTION_SLASH
                  THEN /\ Len(unsafe') = Len(unsafe) + 1
                       /\ SubSeq(unsafe', 1, Len(unsafe)) = unsafe
                       /\ LET span == unsafe'[Len(unsafe')]
                          IN  /\ span.start <= scan.i
                              /\ scan.i < span.end
                              /\ span.end <= scan.count
                              /\ span.end >= scan.i + 1
                              /\ scan'.i - 1 = span.end - 1
                  ELSE /\ unsafe' = unsafe
                       /\ scan'.i = scan.i + 1]_vars
    /\ [](/\ scan.i <= scan.count
          /\ Len(unsafe) = Cardinality(SlashesBelow(scan.i))
          /\ \A k \in SlashesBelow(scan.i) :
                LET span == unsafe[Cardinality(SlashesBelow(k)) + 1]
                IN  span.start <= k /\ k < span.end /\ span.end <= scan.count)
    /\ (pc = "fraction_loop") ~> (pc = "shaper_masks")

\* C23 witness: the scan has ended on a buffer with two slashes, the first
\* with a digit on each side, and both were handled
C23_Witness ==
    /\ pc = "shaper_masks"
    /\ scan.count = 3
    /\ scan.i = scan.count
    /\ info[2].codepoint = FRACTION_SLASH
    /\ info[3].codepoint = FRACTION_SLASH
    /\ IsDigit(info[1])
    /\ Len(unsafe) = 2
    /\ unsafe[1] = [start |-> 0, end |-> 2]
    /\ unsafe[2] = [start |-> 2, end |-> 3]

\* C23 witness: after a slash followed by a digit the index is past the digit
C23_SkipWitness ==
    /\ pc = "fraction_loop"
    /\ scan.count = 3
    /\ info[1].codepoint = FRACTION_SLASH
    /\ IsDigit(info[2])
    /\ ~IsDigit(info[3])
    /\ scan.i = 2
    /\ Len(unsafe) = 1

====
